---- MODULE Spec2Model ----
(***************************************************************************)
(* Dragon 32 emulator: the MC6809E interpreter (cpu.c), the memory module  *)
(* (mem.c), the SAM (sam.c), the mode composition of the VDG (vdg.c), the  *)
(* two PIAs (pia.c) and the cassette file they read (sdfat32.c, loader.c), *)
(* as a state machine.                                                     *)
(*                                                                         *)
(* The memory array memory[65536] is kept as a difference against its      *)
(* content after main() has initialised the devices: data_byte maps the    *)
(* addresses whose byte differs from InitialByte to their current byte,    *)
(* memory_attr maps the addresses whose memory_type or io_handler differs  *)
(* from InitialType and InitialHandler to their current pair.              *)
(*                                                                         *)
(* cpu_run() is one action.  Its body is the operator Run(m) over the      *)
(* machine record m = [cpu, cc, mem, op_code, oos, ub, pia, dev, inp, io]: *)
(* op_code is the local variable of cpu_run() (-1 when the call fetched    *)
(* nothing), oos marks a call that decoded an op-code, or touched a device *)
(* register, that the model does not cover (the action is disabled for     *)
(* such calls), ub marks a call that read past the end of machine_code[],  *)
(* pia holds the statics of pia.c, dev those of sam.c, vdg.c, sdfat32.c    *)
(* and loader.c, inp the levels the host pins and the keyboard controller  *)
(* deliver during the call, and io lists the IO call-backs the call        *)
(* invoked, in order.                                                      *)
(* A setter call that repeats the value its latch already holds changes    *)
(* nothing and is left out.                                                *)
(*                                                                         *)
(* ret is the record of the most recent call of the memory or PIA          *)
(* interface: its name, arguments, return value, the inputs it met and     *)
(* the call-backs it invoked.  host is the keyboard controller: the scan   *)
(* codes it holds, oldest first, one of which every rpi_keyboard_read()    *)
(* takes (0 when it holds none); it also counts the reads of the cassette  *)
(* input.                                                                  *)
(***************************************************************************)
EXTENDS Integers, Sequences, FiniteSets, TLC

VARIABLES cpu, cc, data_byte, op_code, calls, memory_attr, pia, ret, host, dev,
          uart

vars ==
    <<cpu, cc, data_byte, op_code, calls, memory_attr, pia, ret, host, dev, uart>>

(***************************************************************************)
(* Constants of the program                                                *)
(***************************************************************************)
MEMORY == 65536
MEM_OK == 0
MEM_ADD_RANGE == -1
MEM_ROM == -2

DRAGON_ROM_START == 32768
DRAGON_ROM_END == 65279

VEC_RESET == 65534
VEC_NMI == 65532
VEC_SWI == 65530
VEC_IRQ == 65528
VEC_FIRQ == 65526
VEC_SWI2 == 65524
VEC_SWI3 == 65522

INT_NMI == 1
INT_IRQ == 2
INT_FIRQ == 4

CC_FLAG_CLR == 0
CC_FLAG_SET == 1

CPU_EXEC == 0
CPU_HALTED == 1
CPU_SYNC == 2
CPU_RESET == 4
CPU_EXCEPTION == 5

ADDR_DIRECT == 1
ADDR_INHERENT == 2
ADDR_RELATIVE == 3
ADDR_LRELATIVE == 4
ADDR_INDEXED == 5
ADDR_EXTENDED == 6
ADDR_IMMEDIATE == 7
ADDR_LIMMEDIATE == 8
DOUBLE_BYTE == 9
ILLEGAL_OP == 10

OP_CODE10 == 256
OP_CODE11 == 294

PIA0_PA == 65280
PIA0_CRA == 65281
PIA0_PB == 65282
PIA0_CRB == 65283
KBD_ROWS == 7
SER_IN == 256
PIA1_PA == 65312
PIA1_CRA == 65313
PIA1_PB == 65314
PIA1_CRB == 65315
PIACR_CAB2_MASK == 56
PIACR_CAB2_SET == 56
AUDIO_MUX_DAC == 0
MOTOR_ON == 8
BIT_THRESHOLD_HI == 4
BIT_THRESHOLD_LO == 20
PIA_CR_INTR == 1
PIA_CR_IRQ_STAT == 128
SCAN_CODE_F1 == 58

(***************************************************************************)
(* Fixed-width arithmetic                                                  *)
(***************************************************************************)
W8(x) == x % 256
W16(x) == x % 65536
Bit(v, k) == (v \div (2 ^ k)) % 2
BitAnd(a, b) ==
    LET RECURSIVE go(_)
        go(k) == IF k < 0 THEN 0
                 ELSE Bit(a, k) * Bit(b, k) * (2 ^ k) + go(k - 1)
    IN go(15)
BitOr(a, b) == a + b - BitAnd(a, b)
GET_REG_HIGH(r) == (r \div 256) % 256
GET_REG_LOW(r) == r % 256
SIG_EXTEND(b) == IF Bit(W8(b), 7) = 1 THEN W8(b) + 65280 ELSE W8(b)

(***************************************************************************)
(* machine_code[]: <<op, mode, cycles, bytes>> per entry, in table order.  *)
(* Entry i of the C array is machine_code[i + 1].                          *)
(***************************************************************************)
machine_code == <<
    <<0, 1, 6, 2>>, <<1, 10, 0, 1>>, <<2, 10, 0, 1>>, <<3, 1, 6, 2>>, <<4, 1, 6, 2>>, <<5, 10, 0, 1>>,
    <<6, 1, 6, 2>>, <<7, 1, 6, 2>>, <<8, 1, 6, 2>>, <<9, 1, 6, 2>>, <<10, 1, 6, 2>>, <<11, 10, 0, 1>>,
    <<12, 1, 6, 2>>, <<13, 1, 6, 2>>, <<14, 1, 3, 2>>, <<15, 1, 6, 2>>, <<16, 9, 0, 0>>, <<17, 9, 0, 0>>,
    <<18, 2, 2, 1>>, <<19, 2, 4, 1>>, <<20, 10, 0, 1>>, <<21, 10, 0, 1>>, <<22, 4, 5, 3>>, <<23, 4, 9, 3>>,
    <<24, 10, 0, 1>>, <<25, 2, 2, 1>>, <<26, 7, 3, 2>>, <<27, 10, 0, 1>>, <<28, 7, 3, 2>>, <<29, 2, 2, 1>>,
    <<30, 7, 8, 2>>, <<31, 7, 6, 2>>, <<32, 3, 3, 2>>, <<33, 3, 3, 2>>, <<34, 3, 3, 2>>, <<35, 3, 3, 2>>,
    <<36, 3, 3, 2>>, <<37, 3, 3, 2>>, <<38, 3, 3, 2>>, <<39, 3, 3, 2>>, <<40, 3, 3, 2>>, <<41, 3, 3, 2>>,
    <<42, 3, 3, 2>>, <<43, 3, 3, 2>>, <<44, 3, 3, 2>>, <<45, 3, 3, 2>>, <<46, 3, 3, 2>>, <<47, 3, 3, 2>>,
    <<48, 5, 4, 2>>, <<49, 5, 4, 2>>, <<50, 5, 4, 2>>, <<51, 5, 4, 2>>, <<52, 7, 5, 2>>, <<53, 7, 5, 2>>,
    <<54, 7, 5, 2>>, <<55, 7, 5, 2>>, <<56, 10, 0, 1>>, <<57, 2, 5, 1>>, <<58, 2, 3, 1>>, <<59, 2, 6, 1>>,
    <<60, 2, 20, 2>>, <<61, 2, 11, 1>>, <<62, 10, 0, 1>>, <<63, 2, 19, 1>>, <<64, 2, 2, 1>>, <<65, 10, 0, 1>>,
    <<66, 10, 0, 1>>, <<67, 2, 2, 1>>, <<68, 2, 2, 1>>, <<69, 10, 0, 1>>, <<70, 2, 2, 1>>, <<71, 2, 2, 1>>,
    <<72, 2, 2, 1>>, <<73, 2, 2, 1>>, <<74, 2, 2, 1>>, <<75, 10, 0, 1>>, <<76, 2, 2, 1>>, <<77, 2, 2, 1>>,
    <<78, 10, 0, 1>>, <<79, 2, 2, 1>>, <<80, 2, 2, 1>>, <<81, 10, 0, 1>>, <<82, 10, 0, 1>>, <<83, 2, 2, 1>>,
    <<84, 2, 2, 1>>, <<85, 10, 0, 1>>, <<86, 2, 2, 1>>, <<87, 2, 2, 1>>, <<88, 2, 2, 1>>, <<89, 2, 2, 1>>,
    <<90, 2, 2, 1>>, <<91, 10, 0, 1>>, <<92, 2, 2, 1>>, <<93, 2, 2, 1>>, <<94, 10, 0, 1>>, <<95, 2, 2, 1>>,
    <<96, 5, 6, 2>>, <<97, 10, 0, 1>>, <<98, 10, 0, 1>>, <<99, 5, 6, 2>>, <<100, 5, 6, 2>>, <<101, 10, 0, 1>>,
    <<102, 5, 6, 2>>, <<103, 5, 6, 2>>, <<104, 5, 6, 2>>, <<105, 5, 6, 2>>, <<106, 5, 6, 2>>, <<107, 10, 0, 1>>,
    <<108, 5, 6, 2>>, <<109, 5, 6, 2>>, <<110, 5, 3, 2>>, <<111, 5, 6, 2>>, <<112, 6, 7, 3>>, <<113, 10, 0, 1>>,
    <<114, 10, 0, 1>>, <<115, 6, 7, 3>>, <<116, 6, 7, 3>>, <<117, 10, 0, 1>>, <<118, 6, 7, 3>>, <<119, 6, 7, 3>>,
    <<120, 6, 7, 3>>, <<121, 6, 7, 3>>, <<122, 6, 7, 3>>, <<123, 10, 0, 1>>, <<124, 6, 7, 3>>, <<125, 6, 7, 3>>,
    <<126, 6, 4, 3>>, <<127, 6, 7, 3>>, <<128, 7, 2, 2>>, <<129, 7, 2, 2>>, <<130, 7, 2, 2>>, <<131, 8, 4, 3>>,
    <<132, 7, 2, 2>>, <<133, 7, 2, 2>>, <<134, 7, 2, 2>>, <<135, 10, 0, 1>>, <<136, 7, 2, 2>>, <<137, 7, 2, 2>>,
    <<138, 7, 2, 2>>, <<139, 7, 2, 2>>, <<140, 8, 4, 3>>, <<141, 3, 7, 2>>, <<142, 8, 3, 3>>, <<143, 10, 0, 1>>,
    <<144, 1, 4, 2>>, <<145, 1, 4, 2>>, <<146, 1, 4, 2>>, <<147, 1, 6, 2>>, <<148, 1, 4, 2>>, <<149, 1, 4, 2>>,
    <<150, 1, 4, 2>>, <<151, 1, 4, 2>>, <<152, 1, 4, 2>>, <<153, 1, 4, 2>>, <<154, 1, 4, 2>>, <<155, 1, 4, 2>>,
    <<156, 1, 6, 2>>, <<157, 1, 7, 2>>, <<158, 1, 5, 2>>, <<159, 1, 5, 2>>, <<160, 5, 4, 2>>, <<161, 5, 4, 2>>,
    <<162, 5, 4, 2>>, <<163, 5, 6, 2>>, <<164, 5, 4, 2>>, <<165, 5, 4, 2>>, <<166, 5, 4, 2>>, <<167, 5, 4, 2>>,
    <<168, 5, 4, 2>>, <<169, 5, 4, 2>>, <<170, 5, 4, 2>>, <<171, 5, 4, 2>>, <<172, 5, 6, 2>>, <<173, 5, 7, 2>>,
    <<174, 5, 5, 2>>, <<175, 5, 5, 2>>, <<176, 6, 5, 3>>, <<177, 6, 5, 3>>, <<178, 6, 5, 3>>, <<179, 6, 7, 3>>,
    <<180, 6, 5, 3>>, <<181, 6, 5, 3>>, <<182, 6, 5, 3>>, <<183, 6, 5, 3>>, <<184, 6, 5, 3>>, <<185, 6, 5, 3>>,
    <<186, 6, 5, 3>>, <<187, 6, 5, 3>>, <<188, 6, 7, 3>>, <<189, 6, 8, 3>>, <<190, 6, 6, 3>>, <<191, 6, 6, 3>>,
    <<192, 7, 2, 2>>, <<193, 7, 2, 2>>, <<194, 7, 2, 2>>, <<195, 8, 4, 3>>, <<196, 7, 2, 2>>, <<197, 7, 2, 2>>,
    <<198, 7, 2, 2>>, <<199, 10, 0, 1>>, <<200, 7, 2, 2>>, <<201, 7, 2, 2>>, <<202, 7, 2, 2>>, <<203, 7, 2, 2>>,
    <<204, 8, 3, 3>>, <<205, 10, 0, 1>>, <<206, 8, 3, 3>>, <<207, 10, 0, 1>>, <<208, 1, 4, 2>>, <<209, 1, 4, 2>>,
    <<210, 1, 4, 2>>, <<211, 1, 6, 2>>, <<212, 1, 4, 2>>, <<213, 1, 4, 2>>, <<214, 1, 4, 2>>, <<215, 1, 4, 2>>,
    <<216, 1, 4, 2>>, <<217, 1, 4, 2>>, <<218, 1, 4, 2>>, <<219, 1, 4, 2>>, <<220, 1, 5, 2>>, <<221, 1, 5, 2>>,
    <<222, 1, 5, 2>>, <<223, 1, 5, 2>>, <<224, 5, 4, 2>>, <<225, 5, 4, 2>>, <<226, 5, 4, 2>>, <<227, 5, 6, 2>>,
    <<228, 5, 4, 2>>, <<229, 5, 4, 2>>, <<230, 5, 4, 2>>, <<231, 5, 4, 2>>, <<232, 5, 4, 2>>, <<233, 5, 4, 2>>,
    <<234, 5, 4, 2>>, <<235, 5, 4, 2>>, <<236, 5, 5, 2>>, <<237, 5, 5, 2>>, <<238, 5, 5, 2>>, <<239, 5, 5, 2>>,
    <<240, 6, 5, 3>>, <<241, 6, 5, 3>>, <<242, 6, 5, 3>>, <<243, 6, 7, 3>>, <<244, 6, 5, 3>>, <<245, 6, 5, 3>>,
    <<246, 6, 5, 3>>, <<247, 6, 5, 3>>, <<248, 6, 5, 3>>, <<249, 6, 5, 3>>, <<250, 6, 5, 3>>, <<251, 6, 5, 3>>,
    <<252, 6, 6, 3>>, <<253, 6, 6, 3>>, <<254, 6, 6, 3>>, <<255, 6, 6, 3>>, <<33, 4, 5, 4>>, <<34, 4, 5, 4>>,
    <<35, 4, 5, 4>>, <<36, 4, 5, 4>>, <<37, 4, 5, 4>>, <<38, 4, 5, 4>>, <<39, 4, 5, 4>>, <<40, 4, 5, 4>>,
    <<41, 4, 5, 4>>, <<42, 4, 5, 4>>, <<43, 4, 5, 4>>, <<44, 4, 5, 4>>, <<45, 4, 5, 4>>, <<46, 4, 5, 4>>,
    <<47, 4, 5, 4>>, <<63, 2, 20, 2>>, <<131, 8, 5, 4>>, <<140, 8, 5, 4>>, <<142, 8, 4, 4>>, <<147, 1, 7, 3>>,
    <<156, 1, 7, 3>>, <<158, 1, 6, 3>>, <<159, 1, 6, 3>>, <<163, 5, 7, 3>>, <<172, 5, 7, 3>>, <<174, 5, 6, 3>>,
    <<175, 5, 6, 3>>, <<179, 6, 8, 4>>, <<188, 6, 8, 4>>, <<190, 6, 7, 4>>, <<191, 6, 7, 4>>, <<206, 8, 4, 4>>,
    <<222, 1, 6, 3>>, <<223, 1, 6, 3>>, <<238, 5, 6, 3>>, <<239, 5, 6, 3>>, <<254, 6, 7, 4>>, <<255, 6, 7, 4>>,
    <<239, 2, 20, 2>>, <<131, 8, 5, 4>>, <<140, 8, 5, 4>>, <<147, 1, 7, 3>>, <<156, 1, 7, 3>>, <<163, 5, 7, 3>>,
    <<172, 5, 7, 3>>, <<179, 6, 8, 4>>, <<188, 6, 8, 4>>
>>

TableSize == Len(machine_code)
OpOf(idx) == machine_code[idx + 1][1]
ModeOf(idx) == machine_code[idx + 1][2]

(***************************************************************************)
(* Memory module (mem.c)                                                   *)
(***************************************************************************)
MEM_TYPE_RAM == 0
MEM_TYPE_ROM == 1
MEM_TYPE_IO == 2

\* Where the ROM image's vectors point (run: reset, irq, firq, nmi, swi,
\* swi2, swi3) and the stack top the programs load into S.
Layout ==
    [run |-> 4636, irq |-> 512, firq |-> 528, nmi |-> 544, swi |-> 560,
     swi2 |-> 576, swi3 |-> 592, stack |-> 32767]

\* memory[a].data_byte at start-up: mem_init() zeroes every cell and main()
\* copies the ROM image, whose last fourteen bytes (0xbff2..0xbfff) are the
\* vectors the SAM redirects the CPU's vector reads to; pia_init() writes
\* 0x7f to PIA0_PA.
InitialByte(a) ==
    CASE a = 65280 -> 127
      [] a = 49138 -> GET_REG_HIGH(Layout.swi3)
      [] a = 49139 -> GET_REG_LOW(Layout.swi3)
      [] a = 49140 -> GET_REG_HIGH(Layout.swi2)
      [] a = 49141 -> GET_REG_LOW(Layout.swi2)
      [] a = 49146 -> GET_REG_HIGH(Layout.swi)
      [] a = 49147 -> GET_REG_LOW(Layout.swi)
      [] a = 49142 -> GET_REG_HIGH(Layout.firq)
      [] a = 49143 -> GET_REG_LOW(Layout.firq)
      [] a = 49144 -> GET_REG_HIGH(Layout.irq)
      [] a = 49145 -> GET_REG_LOW(Layout.irq)
      [] a = 49148 -> GET_REG_HIGH(Layout.nmi)
      [] a = 49149 -> GET_REG_LOW(Layout.nmi)
      [] a = 49150 -> GET_REG_HIGH(Layout.run)
      [] a = 49151 -> GET_REG_LOW(Layout.run)
      [] OTHER -> 0

\* memory[a].memory_type after main(), sam_init() and pia_init().
InitialType(a) ==
    IF a \in 65522..65535 \/ a \in 65472..65503
       \/ a \in 65280..65283 \/ a \in 65312..65315
    THEN MEM_TYPE_IO
    ELSE IF a \in DRAGON_ROM_START..DRAGON_ROM_END THEN MEM_TYPE_ROM
    ELSE MEM_TYPE_RAM

\* memory[a].io_handler after main(), sam_init() and pia_init().
InitialHandler(a) ==
    IF a \in 65522..65535 THEN "io_handler_vector_redirect"
    ELSE IF a \in 65472..65503 THEN "io_handler_sam_write"
    ELSE CASE a = PIA0_PA -> "io_handler_pia0_pa"
           [] a = PIA0_CRA -> "io_handler_pia0_cra"
           [] a = PIA0_PB -> "io_handler_pia0_pb"
           [] a = PIA0_CRB -> "io_handler_pia0_crb"
           [] a = PIA1_PA -> "io_handler_pia1_pa"
           [] a = PIA1_CRA -> "io_handler_pia1_cra"
           [] a = PIA1_PB -> "io_handler_pia1_pb"
           [] a = PIA1_CRB -> "io_handler_pia1_crb"
           [] OTHER -> "do_nothing_io_handler"

\* memory[a].memory_type and memory[a].io_handler under the attribute map
\* attr, and now.
TypeIn(attr, a) ==
    IF a \in DOMAIN attr THEN attr[a].memory_type ELSE InitialType(a)
HandlerIn(attr, a) ==
    IF a \in DOMAIN attr THEN attr[a].io_handler ELSE InitialHandler(a)
memory_type(a) == TypeIn(memory_attr, a)
io_handler(a) == HandlerIn(memory_attr, a)

\* The attribute map attr without the cells that are as main() left them.
AttrDifference(attr) ==
    [a \in {x \in DOMAIN attr :
               attr[x] # [memory_type |-> InitialType(x),
                          io_handler |-> InitialHandler(x)]} |-> attr[a]]

\* memory[a].data_byte of the memory image mem.
DataAt(mem, a) == IF a \in DOMAIN mem THEN mem[a] ELSE InitialByte(a)

\* memory[a].data_byte = v
Store(mem, a, v) ==
    IF v = InitialByte(a)
    THEN [x \in (DOMAIN mem) \ {a} |-> mem[x]]
    ELSE (a :> v) @@ mem

\* (uint8_t) of the value r carries.
ByteOf(r) == [m |-> r.m, v |-> W8(r.v)]

RECURSIVE mem_read(_, _)
RECURSIVE mem_write(_, _, _)

\* io_handler_vector_redirect(): the byte mem_read() returns for the cell
\* 0x4000 below the vector address.  A target cell that is itself redirected
\* is outside this model.
io_handler_vector_redirect(m, address, data, op) ==
    IF op = "MEM_READ"
    THEN LET target == BitAnd(address, 49151) IN
         IF memory_type(target) = MEM_TYPE_IO
            /\ io_handler(target) = "io_handler_vector_redirect"
         THEN [m |-> [m EXCEPT !.oos = TRUE], v |-> 0]
         ELSE ByteOf(mem_read(m, target))
    ELSE [m |-> m, v |-> 0]

(***************************************************************************)
(* PIA module (pia.c): PIA0, the keyboard and the field-sync interrupt     *)
(***************************************************************************)

\* scan_code_table[]: <<column, row>> per scan code; entry i of the C array
\* is scan_code_table[i + 1].
scan_code_table == <<
    <<255, 255>>, <<251, 6>>, <<253, 0>>, <<251, 0>>, <<247, 0>>, <<239, 0>>, <<223, 0>>, <<191, 0>>,
    <<127, 0>>, <<254, 1>>, <<253, 1>>, <<254, 0>>, <<223, 1>>, <<251, 1>>, <<253, 6>>, <<255, 255>>,
    <<253, 4>>, <<127, 4>>, <<223, 2>>, <<251, 4>>, <<239, 4>>, <<253, 5>>, <<223, 4>>, <<253, 3>>,
    <<127, 3>>, <<254, 4>>, <<254, 2>>, <<255, 255>>, <<254, 6>>, <<255, 255>>, <<253, 2>>, <<247, 4>>,
    <<239, 2>>, <<191, 2>>, <<127, 2>>, <<254, 3>>, <<251, 3>>, <<247, 3>>, <<239, 3>>, <<247, 1>>,
    <<255, 255>>, <<255, 255>>, <<127, 6>>, <<255, 255>>, <<251, 5>>, <<254, 5>>, <<247, 2>>, <<191, 4>>,
    <<251, 2>>, <<191, 3>>, <<223, 3>>, <<239, 1>>, <<191, 1>>, <<127, 1>>, <<255, 255>>, <<255, 255>>,
    <<255, 255>>, <<127, 5>>, <<255, 255>>, <<255, 255>>, <<255, 255>>, <<255, 255>>, <<255, 255>>, <<255, 255>>,
    <<255, 255>>, <<255, 255>>, <<255, 255>>, <<255, 255>>, <<255, 255>>, <<255, 255>>, <<255, 255>>, <<255, 255>>,
    <<247, 5>>, <<255, 255>>, <<255, 255>>, <<223, 5>>, <<255, 255>>, <<191, 5>>, <<255, 255>>, <<255, 255>>,
    <<239, 5>>
>>

\* rpi_halt(): the program never leaves its loop.
rpi_halt(m) == [m EXCEPT !.pia.halted = TRUE]

\* io_handler_pia0_pa()
io_handler_pia0_pa(m, address, data, op) ==
    IF op = "MEM_READ"
    THEN LET d1 == IF m.inp.joystk_comp # 0 THEN BitOr(data, 128)
                   ELSE BitAnd(data, 127)
         IN [m |-> m,
             v |-> IF m.inp.rjoystk_button = 0 THEN BitAnd(d1, 254) ELSE d1]
    ELSE [m |-> m, v |-> data]

\* A row scan that reports a row as soon as one driven column meets it.
get_keyboard_row_scanAnyColumn(keyboard_rows, row_scan) ==
    LET RECURSIVE go(_)
        go(row) ==
            IF row >= KBD_ROWS THEN 0
            ELSE (IF BitAnd(255 - row_scan, keyboard_rows[row + 1]) # 0
                  THEN 2 ^ row ELSE 0) + go(row + 1)
    IN go(0)

\* get_keyboard_row_scan()
get_keyboard_row_scan(keyboard_rows, row_scan) ==
    LET RECURSIVE go(_)
        go(row) ==
            IF row >= KBD_ROWS THEN 0
            ELSE (IF BitAnd(255 - row_scan, keyboard_rows[row + 1]) = 255 - row_scan
                  THEN 2 ^ row ELSE 0) + go(row + 1)
    IN go(0)

\* A break that sets the column bits the table row names.
BreakRowSetsTableBits(row, row_switch_bits) == BitOr(row, row_switch_bits)

\* keyboard_rows[row_index] |= ~row_switch_bits;
BreakRow(row, row_switch_bits) == BitOr(row, 255 - row_switch_bits)

\* keyboard_rows[row_index] &= row_switch_bits;
MakeRow(row, row_switch_bits) == BitAnd(row, row_switch_bits)

\* io_handler_pia0_pb(), a write: the function-key latch and the row
\* bitmaps after scan_code.  A scan code whose low seven bits index past the
\* table is outside this model.
KeyboardScan(m, scan_code) ==
    IF scan_code >= 59 /\ scan_code <= 68
    THEN IF m.pia.function_key = 0
         THEN [m EXCEPT !.pia.function_key = scan_code - SCAN_CODE_F1]
         ELSE m
    ELSE IF scan_code # 0
    THEN LET index == BitAnd(scan_code, 127) IN
         IF index >= Len(scan_code_table) THEN [m EXCEPT !.oos = TRUE]
         ELSE LET row_index == scan_code_table[index + 1][2]
                  row_switch_bits == scan_code_table[index + 1][1]
              IN IF row_index = 255 THEN rpi_halt(m)
                 ELSE IF BitAnd(scan_code, 128) # 0
                 THEN [m EXCEPT !.pia.keyboard_rows[row_index + 1] =
                                   BreakRow(@, row_switch_bits)]
                 ELSE [m EXCEPT !.pia.keyboard_rows[row_index + 1] =
                                   MakeRow(@, row_switch_bits)]
    ELSE m

\* io_handler_pia0_pb(), a write: the row scan merged with the comparator
\* level and written to PIA0_PA; m1 is the machine after the scan code.
StoreRowScan(m1, data) ==
    IF m1.pia.halted THEN m1
    ELSE LET rows == get_keyboard_row_scan(m1.pia.keyboard_rows, data) IN
         mem_write(m1, PIA0_PA,
                   IF m1.inp.joystk_comp # 0 THEN BitOr(rows, 128)
                   ELSE BitAnd(rows, 127))

\* io_handler_pia0_pb()
io_handler_pia0_pb(m, address, data, op) ==
    IF op = "MEM_WRITE"
    THEN [m |-> StoreRowScan(KeyboardScan(m, W8(m.inp.scan_code)), data), v |-> data]
    ELSE [m |-> [m EXCEPT !.pia.pia0_crb = BitAnd(@, 255 - PIA_CR_IRQ_STAT),
                          !.cpu.irq_asserted = 0],
          v |-> data]

\* io_handler_pia0_crb()
io_handler_pia0_crb(m, address, data, op) ==
    IF op = "MEM_WRITE"
    THEN [m |-> [m EXCEPT !.pia.pia0_crb = data,
                          !.pia.pia0_cb1_int_enabled =
                              IF BitAnd(data, PIA_CR_INTR) # 0 THEN 1 ELSE 0],
          v |-> data]
    ELSE [m |-> m, v |-> m.pia.pia0_crb]

\* pia_vsync_irq(), called when the field-sync interval has elapsed.
pia_vsync_irq(m) ==
    IF m.pia.pia0_cb1_int_enabled # 0
    THEN [m EXCEPT !.pia.pia0_crb = BitOr(@, PIA_CR_IRQ_STAT),
                   !.cpu.irq_asserted = 1]
    ELSE m

\* A function-key query that leaves the latch as it is.
pia_function_keyKeepsLatch(m) == [m |-> m, v |-> m.pia.function_key]

\* pia_function_key(): the machine after the call and the value returned.
pia_function_key(m) ==
    [m |-> [m EXCEPT !.pia.function_key = 0], v |-> m.pia.function_key]

(***************************************************************************)
(* The cassette file (sdfat32.c, loader.c)                                 *)
(***************************************************************************)

\* The SD card: the bytes of the file whose cluster chain starts at head.
\* The cluster geometry and the sector cache are left out: every cluster
\* read succeeds.
CasImage(head) ==
    CASE head = 1 -> << 165 >>
      [] head = 2 -> << 254, 1 >>
      [] OTHER -> << >>

\* The cluster chain heads of the cassette files on the card.
CasHeads == {1, 2}

\* The directory entry of the file at head, and the entry memset() leaves.
DirEntry(head) ==
    [is_directory |-> 0, cluster_chain_head |-> head,
     file_size |-> Len(CasImage(head))]
NoEntry == [is_directory |-> 0, cluster_chain_head |-> 0, file_size |-> 0]

\* fat32_fopen(directory_entry)
fat32_fopen(m, directory_entry) ==
    IF directory_entry.is_directory # 0 \/ m.dev.file.file_is_open # 0
    THEN [m |-> m, v |-> 0]
    ELSE [m |-> [m EXCEPT !.dev.file =
                    [file_is_open |-> 1,
                     file_start_cluster |-> directory_entry.cluster_chain_head,
                     current_position |-> 0,
                     file_size |-> directory_entry.file_size]],
          v |-> 1]

\* A fat32_fread() that closes the file when it meets its end.
fat32_freadClosesAtEnd(m) ==
    LET f == m.dev.file IN
    IF f.file_is_open = 0 THEN [m |-> m, v |-> 0, byte |-> 0]
    ELSE IF f.current_position = f.file_size
    THEN [m |-> [m EXCEPT !.dev.file.file_is_open = 0], v |-> 0, byte |-> 0]
    ELSE [m |-> [m EXCEPT !.dev.file.current_position = @ + 1],
          v |-> 1,
          byte |-> CasImage(f.file_start_cluster)[f.current_position + 1]]

\* fat32_fread(buffer, 1): the count returned in v and, when it is 1, the
\* byte put in the buffer.
fat32_fread(m) ==
    LET f == m.dev.file IN
    IF f.file_is_open = 0 \/ f.current_position = f.file_size
    THEN [m |-> m, v |-> 0, byte |-> 0]
    ELSE [m |-> [m EXCEPT !.dev.file.current_position = @ + 1],
          v |-> 1,
          byte |-> CasImage(f.file_start_cluster)[f.current_position + 1]]

\* loader_mount_cas_file(&cas_file)
loader_mount_cas_file(m) ==
    IF m.dev.mounted_cas_file.cluster_chain_head # 0
    THEN [m |-> [m EXCEPT !.pia.cas_file = m.dev.mounted_cas_file], v |-> 1]
    ELSE [m |-> m, v |-> 0]

(***************************************************************************)
(* VDG module (vdg.c): the mode inputs and the composed mode               *)
(***************************************************************************)

\* vdg_get_mode() for the statics vdg of vdg.c.
vdg_get_mode(vdg) ==
    IF vdg.sam_video_mode = 7 THEN "DMA"
    ELSE IF BitAnd(vdg.pia_video_mode, 16) # 0
    THEN CASE BitAnd(vdg.pia_video_mode, 14) = 0 -> "GRAPHICS_1C"
           [] BitAnd(vdg.pia_video_mode, 14) = 2 -> "GRAPHICS_1R"
           [] BitAnd(vdg.pia_video_mode, 14) = 4 -> "GRAPHICS_2C"
           [] BitAnd(vdg.pia_video_mode, 14) = 6 -> "GRAPHICS_2R"
           [] BitAnd(vdg.pia_video_mode, 14) = 8 -> "GRAPHICS_3C"
           [] BitAnd(vdg.pia_video_mode, 14) = 10 -> "GRAPHICS_3R"
           [] BitAnd(vdg.pia_video_mode, 14) = 12 -> "GRAPHICS_6C"
           [] BitAnd(vdg.pia_video_mode, 14) = 14 -> "GRAPHICS_6R"
    ELSE IF vdg.sam_video_mode = 0 /\ BitAnd(vdg.pia_video_mode, 2) = 0
    THEN "ALPHA_INTERNAL"
    ELSE IF vdg.sam_video_mode = 0 /\ BitAnd(vdg.pia_video_mode, 2) # 0
    THEN "ALPHA_EXTERNAL"
    ELSE IF vdg.sam_video_mode = 2 /\ BitAnd(vdg.pia_video_mode, 2) = 0
    THEN "SEMI_GRAPHICS_8"
    ELSE IF vdg.sam_video_mode = 4 /\ BitAnd(vdg.pia_video_mode, 2) = 0
    THEN "SEMI_GRAPHICS_12"
    ELSE IF vdg.sam_video_mode = 4 /\ BitAnd(vdg.pia_video_mode, 2) = 0
    THEN "SEMI_GRAPHICS_24"
    ELSE "UNDEFINED"

\* resolution[mode][RES_MEM]: the bytes of video memory vdg_render() reads
\* in the modes it draws.
VideoLength(mode) ==
    CASE mode \in {"ALPHA_INTERNAL", "SEMI_GRAPHICS_4", "SEMI_GRAPHICS_6"} -> 512
      [] mode \in {"GRAPHICS_1C", "GRAPHICS_1R"} -> 1024
      [] mode \in {"SEMI_GRAPHICS_8", "GRAPHICS_2C"} -> 2048
      [] mode = "GRAPHICS_2R" -> 1536
      [] mode \in {"SEMI_GRAPHICS_12", "GRAPHICS_3C", "GRAPHICS_3R"} -> 3072
      [] OTHER -> 6144

\* The modes vdg_render() draws; in every other mode it calls rpi_halt().
DrawnModes ==
    {"ALPHA_INTERNAL", "SEMI_GRAPHICS_4", "SEMI_GRAPHICS_6", "SEMI_GRAPHICS_8",
     "SEMI_GRAPHICS_12", "GRAPHICS_1C", "GRAPHICS_1R", "GRAPHICS_2C",
     "GRAPHICS_2R", "GRAPHICS_3C", "GRAPHICS_3R", "GRAPHICS_6C", "GRAPHICS_6R"}

\* vdg_render() once the mode is composed: the frame buffer is outside this
\* model, and so is a display area that reaches the device registers (its
\* reads would call their handlers).  In the mode UNDEFINED the function
\* reads past resolution[] and mode_name[] before it halts.
Rendered(m, mode) ==
    LET m1 == [m EXCEPT !.dev.vdg.current_mode = mode,
                        !.dev.vdg.prev_mode = mode]
    IN IF mode \notin DrawnModes THEN [m1 EXCEPT !.pia.halted = TRUE]
       ELSE IF m.dev.vdg.video_ram_offset * 512 + VideoLength(mode) > PIA0_PA
       THEN [m1 EXCEPT !.oos = TRUE]
       ELSE m1

\* vdg_render()
vdg_render(m) == Rendered(m, vdg_get_mode(m.dev.vdg))

\* vdg_set_mode_sam(), vdg_set_video_offset() and vdg_set_mode_pia()
vdg_set_mode_sam(m, sam_mode) == [m EXCEPT !.dev.vdg.sam_video_mode = sam_mode]
vdg_set_video_offset(m, offset) == [m EXCEPT !.dev.vdg.video_ram_offset = offset]
vdg_set_mode_pia(m, pia_mode) == [m EXCEPT !.dev.vdg.pia_video_mode = pia_mode]

(***************************************************************************)
(* SAM module (sam.c): the control register                                *)
(***************************************************************************)

\* A switch that stores the written bit and clears the other bits of
\* vdg_mode.
SamSwitchClearsOthers(sam, register_addr) ==
    IF register_addr < 6
    THEN [sam EXCEPT !.vdg_mode =
              (register_addr % 2) * (2 ^ (register_addr \div 2))]
    ELSE sam

\* The switch of io_handler_sam_write() over register_addr, on the
\* registers sam.
SamSwitch(sam, register_addr) ==
    CASE register_addr = 0 -> [sam EXCEPT !.vdg_mode = BitAnd(@, 254)]
      [] register_addr = 1 -> [sam EXCEPT !.vdg_mode = BitOr(@, 1)]
      [] register_addr = 2 -> [sam EXCEPT !.vdg_mode = BitAnd(@, 253)]
      [] register_addr = 3 -> [sam EXCEPT !.vdg_mode = BitOr(@, 2)]
      [] register_addr = 4 -> [sam EXCEPT !.vdg_mode = BitAnd(@, 251)]
      [] register_addr = 5 -> [sam EXCEPT !.vdg_mode = BitOr(@, 4)]
      [] register_addr = 6 -> [sam EXCEPT !.vdg_display_offset = BitAnd(@, 254)]
      [] register_addr = 7 -> [sam EXCEPT !.vdg_display_offset = BitOr(@, 1)]
      [] register_addr = 8 -> [sam EXCEPT !.vdg_display_offset = BitAnd(@, 253)]
      [] register_addr = 9 -> [sam EXCEPT !.vdg_display_offset = BitOr(@, 2)]
      [] register_addr = 10 -> [sam EXCEPT !.vdg_display_offset = BitAnd(@, 251)]
      [] register_addr = 11 -> [sam EXCEPT !.vdg_display_offset = BitOr(@, 4)]
      [] register_addr = 12 -> [sam EXCEPT !.vdg_display_offset = BitAnd(@, 247)]
      [] register_addr = 13 -> [sam EXCEPT !.vdg_display_offset = BitOr(@, 8)]
      [] register_addr = 14 -> [sam EXCEPT !.vdg_display_offset = BitAnd(@, 239)]
      [] register_addr = 15 -> [sam EXCEPT !.vdg_display_offset = BitOr(@, 16)]
      [] register_addr = 16 -> [sam EXCEPT !.vdg_display_offset = BitAnd(@, 223)]
      [] register_addr = 17 -> [sam EXCEPT !.vdg_display_offset = BitOr(@, 32)]
      [] register_addr = 18 -> [sam EXCEPT !.vdg_display_offset = BitAnd(@, 191)]
      [] register_addr = 19 -> [sam EXCEPT !.vdg_display_offset = BitOr(@, 64)]
      [] OTHER -> sam

\* The registers after the switch are passed to the VDG.
SamToVdg(m, sam) ==
    vdg_set_video_offset(
        vdg_set_mode_sam([m EXCEPT !.dev.sam_registers = sam], sam.vdg_mode),
        sam.vdg_display_offset)

\* io_handler_sam_write()
io_handler_sam_write(m, address, data, op) ==
    [m |-> SamToVdg(m, IF op = "MEM_WRITE"
                       THEN SamSwitch(m.dev.sam_registers, BitAnd(address, 31))
                       ELSE m.dev.sam_registers),
     v |-> 0]

(***************************************************************************)
(* PIA module (pia.c): PIA1, the cassette input and the video mode bits    *)
(***************************************************************************)

\* The byte fetch of io_handler_pia1_pa(), taken when bit_index is 0; r is
\* the fat32_fread().
CasFetched(r) ==
    [r.m EXCEPT !.pia.byte = IF r.v = 0 THEN 85 ELSE r.byte,
                !.pia.bit_index = 9,
                !.pia.bit_timing_threshold = 0,
                !.pia.bit_timing_count = 0]
CasFetch(m) == IF m.pia.bit_index = 0 THEN CasFetched(fat32_fread(m)) ELSE m

\* The shift to the next bit, taken when the count has reached the threshold.
CasShift(m) ==
    IF m.pia.bit_timing_count = m.pia.bit_timing_threshold
    THEN [m EXCEPT !.pia.bit_timing_threshold =
                       IF BitAnd(m.pia.byte, 1) # 0 THEN BIT_THRESHOLD_HI
                       ELSE BIT_THRESHOLD_LO,
                   !.pia.bit_timing_count = 0,
                   !.pia.byte = @ \div 2,
                   !.pia.bit_index = @ - 1]
    ELSE m

\* A level that is high for the first half of a bit cell.
CasLevelHighFirst(m, data) ==
    [m |-> [m EXCEPT !.pia.bit_timing_count = @ + 1],
     v |-> IF m.pia.bit_timing_count < m.pia.bit_timing_threshold \div 2
           THEN BitOr(data, 1) ELSE BitAnd(data, 254)]

\* The level put on bit 0 of the byte read, and the count of the read.
CasLevel(m, data) ==
    [m |-> [m EXCEPT !.pia.bit_timing_count = @ + 1],
     v |-> IF m.pia.bit_timing_count < m.pia.bit_timing_threshold \div 2
           THEN BitAnd(data, 254) ELSE BitOr(data, 1)]

\* io_handler_pia1_pa(): a write drives the DAC pins, which are outside this
\* model.
io_handler_pia1_pa(m, address, data, op) ==
    IF op = "MEM_WRITE" THEN [m |-> m, v |-> data]
    ELSE CasLevel(CasShift(CasFetch(m)), data)

\* A PB handler that takes the mode bits from bit 2 up.
io_handler_pia1_pbShiftsTwo(m, address, data, op) ==
    [m |-> vdg_set_mode_pia(m, BitAnd(data \div 4, 31)), v |-> data]

\* io_handler_pia1_pb()
io_handler_pia1_pb(m, address, data, op) ==
    [m |-> vdg_set_mode_pia(m, BitAnd(data \div 8, 31)), v |-> data]

\* The mount and open of io_handler_pia1_cra(); r is the
\* loader_mount_cas_file().
CasOpen(r) == IF r.v # 0 THEN fat32_fopen(r.m, r.m.pia.cas_file).m ELSE r.m

\* io_handler_pia1_cra()
io_handler_pia1_cra(m, address, data, op) ==
    IF op = "MEM_WRITE"
    THEN [m |-> IF BitAnd(data, 48) # 0 /\ BitAnd(data, MOTOR_ON) # 0
                THEN CasOpen(loader_mount_cas_file([m EXCEPT !.pia.pia1_cra = data]))
                ELSE [m EXCEPT !.pia.pia1_cra = data],
          v |-> data]
    ELSE [m |-> m, v |-> m.pia.pia1_cra]

\* io_handler_pia1_crb(): the multiplexer pins follow audio_mux_select.
io_handler_pia1_crb(m, address, data, op) ==
    IF op = "MEM_WRITE"
    THEN [m |-> [m EXCEPT !.pia.pia1_crb = data,
                          !.pia.audio_mux_select =
                              IF BitAnd(data, PIACR_CAB2_MASK) = PIACR_CAB2_SET
                              THEN BitOr(@, 2) ELSE BitAnd(@, 253)],
          v |-> data]
    ELSE [m |-> m, v |-> m.pia.pia1_crb]

(***************************************************************************)
(* Memory module (mem.c): the access functions                             *)
(***************************************************************************)

\* The call of memory[address].io_handler as the list m.io records it: the
\* handler, its three arguments and the cell's byte at the call.
IoEntry(m, address, data, op) ==
    [handler |-> io_handler(address), address |-> address, data |-> data,
     op |-> op, cell |-> DataAt(m.mem, address)]

\* memory[address].io_handler(address, data, op) for the handler h; the
\* sound register PIA0-CRA is outside this model.
Dispatch(m, h, address, data, op) ==
    CASE h = "io_handler_vector_redirect" ->
            io_handler_vector_redirect(m, address, data, op)
      [] h = "io_handler_pia0_pa" -> io_handler_pia0_pa(m, address, data, op)
      [] h = "io_handler_pia0_pb" -> io_handler_pia0_pb(m, address, data, op)
      [] h = "io_handler_pia0_crb" -> io_handler_pia0_crb(m, address, data, op)
      [] h = "io_handler_pia1_pa" -> io_handler_pia1_pa(m, address, data, op)
      [] h = "io_handler_pia1_cra" -> io_handler_pia1_cra(m, address, data, op)
      [] h = "io_handler_pia1_pb" -> io_handler_pia1_pb(m, address, data, op)
      [] h = "io_handler_pia1_crb" -> io_handler_pia1_crb(m, address, data, op)
      [] h = "io_handler_sam_write" -> io_handler_sam_write(m, address, data, op)
      [] OTHER -> [m |-> [m EXCEPT !.oos = TRUE], v |-> 0]

\* The callback of an IO cell.
IoCall(m, address, data, op) ==
    Dispatch([m EXCEPT !.io = Append(@, IoEntry(m, address, data, op))],
             io_handler(address), address, data, op)

\* A read that leaves the cell as it was and returns the callback's byte.
IoReadKeepsCell(r, address) ==
    [m |-> r.m, v |-> r.v]

\* memory[address].data_byte = the byte r the callback returned.
IoRead(r, address) ==
    [m |-> [r.m EXCEPT !.mem = Store(@, address, r.v)], v |-> r.v]

\* A mem_read() that answers 0 for an address out of range.
mem_readZeroOutOfRange(m, address) ==
    IF address < 0 \/ address > MEMORY - 1
    THEN [m |-> m, v |-> 0]
    ELSE IF memory_type(address) = MEM_TYPE_IO
            /\ io_handler(address) # "do_nothing_io_handler"
    THEN IoRead(IoCall(m, address, DataAt(m.mem, address), "MEM_READ"), address)
    ELSE [m |-> m, v |-> DataAt(m.mem, address)]

\* mem_read(): the machine after the read and the value returned.
mem_read(m, address) ==
    IF address < 0 \/ address > MEMORY - 1
    THEN [m |-> m, v |-> MEM_ADD_RANGE]
    ELSE IF memory_type(address) = MEM_TYPE_IO
            /\ io_handler(address) # "do_nothing_io_handler"
    THEN IoRead(IoCall(m, address, DataAt(m.mem, address), "MEM_READ"), address)
    ELSE [m |-> m, v |-> DataAt(m.mem, address)]

\* mem_write(): the value returned.
mem_write_result(address) ==
    IF address < 0 \/ address > MEMORY - 1 THEN MEM_ADD_RANGE
    ELSE IF memory_type(address) = MEM_TYPE_ROM THEN MEM_ROM
    ELSE MEM_OK

\* A mem_write() without the test for MEM_TYPE_ROM.
mem_writeAnyType(m, address, data) ==
    IF address < 0 \/ address > MEMORY - 1 THEN m
    ELSE LET m1 == [m EXCEPT !.mem = Store(@, address, W8(data))] IN
         IF memory_type(address) = MEM_TYPE_IO
            /\ io_handler(address) # "do_nothing_io_handler"
         THEN IoCall(m1, address, W8(data), "MEM_WRITE").m
         ELSE m1

\* mem_write(): the machine after the write.
mem_write(m, address, data) ==
    IF address < 0 \/ address > MEMORY - 1 THEN m
    ELSE IF memory_type(address) = MEM_TYPE_ROM THEN m
    ELSE LET m1 == [m EXCEPT !.mem = Store(@, address, W8(data))] IN
         IF memory_type(address) = MEM_TYPE_IO
            /\ io_handler(address) # "do_nothing_io_handler"
         THEN IoCall(m1, address, W8(data), "MEM_WRITE").m
         ELSE m1

\* mem_define_rom(), mem_define_io(): the value returned.
mem_define_result(addr_start, addr_end) ==
    IF addr_start < 0 \/ addr_start > MEMORY - 1
       \/ addr_end < 0 \/ addr_end > MEMORY - 1
       \/ addr_start > addr_end
    THEN MEM_ADD_RANGE
    ELSE MEM_OK

\* mem_define_rom(): the attribute map after the call.
mem_define_rom(addr_start, addr_end) ==
    IF mem_define_result(addr_start, addr_end) # MEM_OK THEN memory_attr
    ELSE AttrDifference(
            [a \in DOMAIN memory_attr \cup (addr_start..addr_end) |->
                IF a \in addr_start..addr_end
                THEN [memory_type |-> MEM_TYPE_ROM, io_handler |-> io_handler(a)]
                ELSE memory_attr[a]])

\* mem_define_io(): the attribute map after the call; the handler "0L" is
\* the null pointer.
mem_define_io(addr_start, addr_end, handler) ==
    IF mem_define_result(addr_start, addr_end) # MEM_OK THEN memory_attr
    ELSE AttrDifference(
            [a \in DOMAIN memory_attr \cup (addr_start..addr_end) |->
                IF a \in addr_start..addr_end
                THEN [memory_type |-> MEM_TYPE_IO,
                      io_handler |-> IF handler # "0L" THEN handler
                                     ELSE io_handler(a)]
                ELSE memory_attr[a]])

(***************************************************************************)
(* Condition-code register                                                 *)
(***************************************************************************)
get_cc(f) ==
    f.e * 128 + f.f * 64 + f.h * 32 + f.i * 16 + f.n * 8 + f.z * 4 + f.v * 2 + f.c

set_cc(value) ==
    [c |-> Bit(value, 0), v |-> Bit(value, 1), z |-> Bit(value, 2),
     n |-> Bit(value, 3), i |-> Bit(value, 4), h |-> Bit(value, 5),
     f |-> Bit(value, 6), e |-> Bit(value, 7)]

eval_cc_z(m, value) ==
    [m EXCEPT !.cc.z = IF BitAnd(value, 255) = 0 THEN CC_FLAG_SET ELSE CC_FLAG_CLR]
eval_cc_n(m, value) ==
    [m EXCEPT !.cc.n = IF Bit(value, 7) = 1 THEN CC_FLAG_SET ELSE CC_FLAG_CLR]
eval_cc_z16(m, value) ==
    [m EXCEPT !.cc.z = IF BitAnd(value, 65535) = 0 THEN CC_FLAG_SET ELSE CC_FLAG_CLR]
eval_cc_n16(m, value) ==
    [m EXCEPT !.cc.n = IF Bit(value, 15) = 1 THEN CC_FLAG_SET ELSE CC_FLAG_CLR]
eval_cc_c(m, value) ==
    [m EXCEPT !.cc.c = IF BitAnd(value, 256) # 0 THEN CC_FLAG_SET ELSE CC_FLAG_CLR]

\* cpu_run(), MUL: operand16 = cpu.a * cpu.b, stored in A and B.
MulStored(m, operand16) ==
    eval_cc_c(eval_cc_z16([m EXCEPT !.cpu.a = GET_REG_HIGH(operand16),
                                    !.cpu.b = GET_REG_LOW(operand16)],
                          operand16),
              operand16)
mul(m) == MulStored(m, W16(m.cpu.a * m.cpu.b))

\* daa(): temp after the three additions, the nibbles being those of A
\* before them.
DaaTemp(a, h, c) ==
    a + (IF BitAnd(a, 15) > 9 \/ h # 0 THEN 6 ELSE 0)
      + (IF BitAnd(a, 240) > 128 /\ BitAnd(a, 15) > 9 THEN 96 ELSE 0)
      + (IF BitAnd(a, 240) > 144 \/ c # 0 THEN 96 ELSE 0)

\* daa(): cpu.a = temp and the flags.
DaaStored(m, temp) ==
    [eval_cc_n(eval_cc_z(eval_cc_c([m EXCEPT !.cpu.a = W8(temp)], temp), temp),
               temp)
     EXCEPT !.cc.v = CC_FLAG_CLR]
daa(m) == DaaStored(m, DaaTemp(m.cpu.a, m.cc.h, m.cc.c))

(***************************************************************************)
(* CPU module (cpu.c)                                                      *)
(***************************************************************************)

\* cpu.s--; mem_write(cpu.s, byte);
Push(m, byte) ==
    mem_write([m EXCEPT !.cpu.s = W16(@ - 1)], W16(m.cpu.s - 1), byte)

RECURSIVE PushSeq(_, _)
PushSeq(m, bytes) ==
    IF bytes = << >> THEN m
    ELSE PushSeq(Push(m, Head(bytes)), Tail(bytes))

\* byte = mem_read(cpu.s); cpu.s++;  (r is the read)
Pulled(r) == [m |-> [r.m EXCEPT !.cpu.s = W16(@ + 1)], v |-> W8(r.v)]
Pull(m) == Pulled(mem_read(m, m.cpu.s))

\* n pulls in a row: the machine after them and the bytes in pull order.
RECURSIVE PullSeq(_, _)
PullCons(v, r) == [m |-> r.m, v |-> << v >> \o r.v]
PullFrom(p, n) == PullCons(p.v, PullSeq(p.m, n - 1))
PullSeq(m, n) ==
    IF n = 0 THEN [m |-> m, v |-> << >>] ELSE PullFrom(Pull(m), n)

\* A push order with Y stacked above X.
MachineStateBytesYAboveX(m) ==
    << GET_REG_LOW(m.cpu.pc), GET_REG_HIGH(m.cpu.pc),
       GET_REG_LOW(m.cpu.u), GET_REG_HIGH(m.cpu.u),
       GET_REG_LOW(m.cpu.x), GET_REG_HIGH(m.cpu.x),
       GET_REG_LOW(m.cpu.y), GET_REG_HIGH(m.cpu.y),
       m.cpu.dp, m.cpu.b, m.cpu.a >>

\* The bytes of the machine state below CC in the order the entry code of
\* NMI, IRQ, SWI and CWAI pushes them.
MachineStateBytes(m) ==
    << GET_REG_LOW(m.cpu.pc), GET_REG_HIGH(m.cpu.pc),
       GET_REG_LOW(m.cpu.u), GET_REG_HIGH(m.cpu.u),
       GET_REG_LOW(m.cpu.y), GET_REG_HIGH(m.cpu.y),
       GET_REG_LOW(m.cpu.x), GET_REG_HIGH(m.cpu.x),
       m.cpu.dp, m.cpu.b, m.cpu.a >>

\* (hi << 8) + lo, where lo is the read of the low byte.
Join16(hi, lo) == [m |-> lo.m, v |-> W16(hi * 256 + lo.v)]

\* (mem_read(vec) << 8) + mem_read(vec + 1)
ReadVectorLow(hi, vec) == Join16(hi.v, mem_read(hi.m, vec + 1))
ReadVector(m, vec) == ReadVectorLow(mem_read(m, vec), vec)

\* cpu.pc = the 16-bit value r read.
SetPc(r) == [r.m EXCEPT !.cpu.pc = r.v]

\* A reset branch that leaves the NMI arming as it was.
ResetEntryKeepsArmed(m) ==
    SetPc(ReadVector([m EXCEPT !.cc.f = CC_FLAG_SET, !.cc.i = CC_FLAG_SET,
                               !.cpu.dp = 0, !.cpu.nmi_latched = 0,
                               !.cpu.cpu_state = CPU_RESET],
                     VEC_RESET))

\* A reset branch that also resets PIA0 as the reset line of the board does.
ResetEntryResetsPia(m) ==
    SetPc(ReadVector([m EXCEPT !.cc.f = CC_FLAG_SET, !.cc.i = CC_FLAG_SET,
                               !.cpu.dp = 0, !.cpu.nmi_armed = 0,
                               !.cpu.nmi_latched = 0,
                               !.cpu.cpu_state = CPU_RESET,
                               !.pia.pia0_crb = 0,
                               !.pia.pia0_cb1_int_enabled = 0],
                     VEC_RESET))

\* cpu_run(), the branch taken when the reset latch is set.
ResetEntry(m) ==
    SetPc(ReadVector([m EXCEPT !.cc.f = CC_FLAG_SET, !.cc.i = CC_FLAG_SET,
                               !.cpu.dp = 0, !.cpu.nmi_armed = 0,
                               !.cpu.nmi_latched = 0,
                               !.cpu.cpu_state = CPU_RESET],
                     VEC_RESET))

\* cpu_run(), the NMI branch.
NmiEntry(m) ==
    LET m1 == [m EXCEPT !.cpu.cpu_state = CPU_EXEC, !.cc.e = CC_FLAG_SET]
        m2 == PushSeq(m1, MachineStateBytes(m1) \o << get_cc(m1.cc) >>)
    IN SetPc(ReadVector([m2 EXCEPT !.cpu.nmi_latched = 0,
                                   !.cc.f = CC_FLAG_SET, !.cc.i = CC_FLAG_SET],
                        VEC_NMI))

\* A FIRQ branch that also drops the NMI latch.
FirqEntryClearsNmi(m) ==
    LET m1 == [m EXCEPT !.cpu.cpu_state = CPU_EXEC, !.cc.e = CC_FLAG_CLR]
        m2 == PushSeq(m1, << GET_REG_LOW(m1.cpu.pc), GET_REG_HIGH(m1.cpu.pc),
                             get_cc(m1.cc) >>)
    IN SetPc(ReadVector([m2 EXCEPT !.cpu.nmi_latched = 0,
                                   !.cc.f = CC_FLAG_SET, !.cc.i = CC_FLAG_SET],
                        VEC_FIRQ))

\* cpu_run(), the FIRQ branch.
FirqEntry(m) ==
    LET m1 == [m EXCEPT !.cpu.cpu_state = CPU_EXEC, !.cc.e = CC_FLAG_CLR]
        m2 == PushSeq(m1, << GET_REG_LOW(m1.cpu.pc), GET_REG_HIGH(m1.cpu.pc),
                             get_cc(m1.cc) >>)
    IN SetPc(ReadVector([m2 EXCEPT !.cc.f = CC_FLAG_SET, !.cc.i = CC_FLAG_SET],
                        VEC_FIRQ))

\* An IRQ branch that loads PC from the vector before it pushes the frame.
IrqEntryVectorFirst(m) ==
    LET m1 == SetPc(ReadVector([m EXCEPT !.cpu.cpu_state = CPU_EXEC,
                                         !.cc.e = CC_FLAG_SET], VEC_IRQ))
        m2 == PushSeq(m1, MachineStateBytes(m1) \o << get_cc(m1.cc) >>)
    IN [m2 EXCEPT !.cc.i = CC_FLAG_SET]

\* An IRQ branch that masks the FIRQ as well.
IrqEntryMasksFirq(m) ==
    LET m1 == [m EXCEPT !.cpu.cpu_state = CPU_EXEC, !.cc.e = CC_FLAG_SET]
        m2 == PushSeq(m1, MachineStateBytes(m1) \o << get_cc(m1.cc) >>)
    IN SetPc(ReadVector([m2 EXCEPT !.cc.f = CC_FLAG_SET, !.cc.i = CC_FLAG_SET],
                        VEC_IRQ))

\* cpu_run(), the IRQ branch.
IrqEntry(m) ==
    LET m1 == [m EXCEPT !.cpu.cpu_state = CPU_EXEC, !.cc.e = CC_FLAG_SET]
        m2 == PushSeq(m1, MachineStateBytes(m1) \o << get_cc(m1.cc) >>)
    IN SetPc(ReadVector([m2 EXCEPT !.cc.i = CC_FLAG_SET], VEC_IRQ))

\* intr_latch as cpu_run() collects it.
IntrLatch(m) ==
    (IF m.cpu.nmi_latched # 0 THEN INT_NMI ELSE 0)
    + (IF m.cpu.irq_asserted # 0 THEN INT_IRQ ELSE 0)
    + (IF m.cpu.firq_asserted # 0 THEN INT_FIRQ ELSE 0)

\* An interrupt chain that tests the IRQ before the FIRQ.
ServiceIrqBeforeFirq(m) ==
    LET intr_latch == IntrLatch(m) IN
    IF m.cpu.nmi_armed # 0 /\ BitAnd(intr_latch, INT_NMI) # 0 THEN NmiEntry(m)
    ELSE IF m.cc.i = 0 /\ BitAnd(intr_latch, INT_IRQ) # 0 THEN IrqEntry(m)
    ELSE IF m.cc.f = 0 /\ BitAnd(intr_latch, INT_FIRQ) # 0 THEN FirqEntry(m)
    ELSE m

\* cpu_run(), the if / else-if chain that services one interrupt.
ServiceInterrupts(m) ==
    LET intr_latch == IntrLatch(m) IN
    IF m.cpu.nmi_armed # 0 /\ BitAnd(intr_latch, INT_NMI) # 0 THEN NmiEntry(m)
    ELSE IF m.cc.f = 0 /\ BitAnd(intr_latch, INT_FIRQ) # 0 THEN FirqEntry(m)
    ELSE IF m.cc.i = 0 /\ BitAnd(intr_latch, INT_IRQ) # 0 THEN IrqEntry(m)
    ELSE m

\* cwai()
cwai(m, byte) ==
    LET temp_cc == BitOr(BitAnd(get_cc(m.cc), byte), 128)
        m1 == [m EXCEPT !.cc = set_cc(temp_cc)]
        m2 == PushSeq(m1, MachineStateBytes(m1) \o << temp_cc >>)
    IN [m2 EXCEPT !.cpu.cpu_state = CPU_SYNC]

\* rti(): set_cc(byte) with the byte p pulled.
CcFromByte(p) == [p.m EXCEPT !.cc = set_cc(p.v)]

\* A restore that takes B from the first byte pulled and A from the second.
RestoreRegistersBBeforeA(r) ==
    [r.m EXCEPT !.cpu.b = r.v[1], !.cpu.a = r.v[2], !.cpu.dp = r.v[3],
                !.cpu.x = W16(r.v[4] * 256 + r.v[5]),
                !.cpu.y = W16(r.v[6] * 256 + r.v[7]),
                !.cpu.u = W16(r.v[8] * 256 + r.v[9])]

\* rti(): the registers of an entire frame, from the nine bytes r pulled.
RestoreRegisters(r) ==
    [r.m EXCEPT !.cpu.a = r.v[1], !.cpu.b = r.v[2], !.cpu.dp = r.v[3],
                !.cpu.x = W16(r.v[4] * 256 + r.v[5]),
                !.cpu.y = W16(r.v[6] * 256 + r.v[7]),
                !.cpu.u = W16(r.v[8] * 256 + r.v[9])]

\* rti(): PC from the two bytes r pulled.
PcFromBytes(r) == [r.m EXCEPT !.cpu.pc = W16(r.v[1] * 256 + r.v[2])]

\* rti() after CC is restored.
RtiAfterCc(m1) ==
    PcFromBytes(PullSeq(IF m1.cc.e # 0 THEN RestoreRegisters(PullSeq(m1, 9))
                        ELSE m1,
                        2))

\* rti()
rti(m) == RtiAfterCc(CcFromByte(Pull(m)))

\* andcc(), orcc()
andcc(m, byte) == [m EXCEPT !.cc = set_cc(BitAnd(get_cc(m.cc), byte))]
orcc(m, byte) == [m EXCEPT !.cc = set_cc(BitOr(get_cc(m.cc), byte))]

\* read_register()
read_register(m, reg) ==
    CASE reg = 0 -> [m |-> m, v |-> W16(m.cpu.a * 256 + m.cpu.b)]
      [] reg = 1 -> [m |-> m, v |-> m.cpu.x]
      [] reg = 2 -> [m |-> m, v |-> m.cpu.y]
      [] reg = 3 -> [m |-> m, v |-> m.cpu.u]
      [] reg = 4 -> [m |-> m, v |-> m.cpu.s]
      [] reg = 5 -> [m |-> m, v |-> m.cpu.pc]
      [] reg = 8 -> [m |-> m, v |-> m.cpu.a]
      [] reg = 9 -> [m |-> m, v |-> m.cpu.b]
      [] reg = 10 -> [m |-> m, v |-> get_cc(m.cc)]
      [] reg = 11 -> [m |-> m, v |-> m.cpu.dp]
      [] OTHER -> [m |-> [m EXCEPT !.cpu.cpu_state = CPU_EXCEPTION], v |-> 0]

\* write_register()
write_register(m, reg, data) ==
    CASE reg = 0 -> [m EXCEPT !.cpu.a = GET_REG_HIGH(data), !.cpu.b = GET_REG_LOW(data)]
      [] reg = 1 -> [m EXCEPT !.cpu.x = data]
      [] reg = 2 -> [m EXCEPT !.cpu.y = data]
      [] reg = 3 -> [m EXCEPT !.cpu.u = data]
      [] reg = 4 -> [m EXCEPT !.cpu.s = data, !.cpu.nmi_armed = 1]
      [] reg = 5 -> [m EXCEPT !.cpu.pc = data]
      [] reg = 8 -> [m EXCEPT !.cpu.a = GET_REG_LOW(data)]
      [] reg = 9 -> [m EXCEPT !.cpu.b = GET_REG_LOW(data)]
      [] reg = 10 -> [m EXCEPT !.cc = set_cc(W8(data))]
      [] reg = 11 -> [m EXCEPT !.cpu.dp = GET_REG_LOW(data)]
      [] OTHER -> [m EXCEPT !.cpu.cpu_state = CPU_EXCEPTION]

\* tfr()
tfr(m, regs) ==
    LET src == (regs \div 16) % 16
        dst == regs % 16
        r == read_register(m, src)
    IN write_register(r.m, dst, r.v)

\* exg()
exg(m, regs) ==
    LET src == (regs \div 16) % 16
        dst == regs % 16
        temp1 == read_register(m, src)
        temp2 == read_register(temp1.m, dst)
    IN write_register(write_register(temp2.m, dst, temp1.v), src, temp2.v)

\* swi(): the vector of each SWI type, after the frame is pushed.
SwiVector(m, swi_id) ==
    CASE swi_id = 1 ->
            SetPc(ReadVector([m EXCEPT !.cc.i = CC_FLAG_SET, !.cc.f = CC_FLAG_SET],
                             VEC_SWI))
      [] swi_id = 2 -> SetPc(ReadVector(m, VEC_SWI2))
      [] swi_id = 3 -> SetPc(ReadVector(m, VEC_SWI3))
      [] OTHER -> [m EXCEPT !.cpu.cpu_state = CPU_EXCEPTION]

\* swi(): the frame pushed with E set.
SwiFrame(m1) == PushSeq(m1, MachineStateBytes(m1) \o << get_cc(m1.cc) >>)

\* swi()
swi(m, swi_id) == SwiVector(SwiFrame([m EXCEPT !.cc.e = CC_FLAG_SET]), swi_id)

\* val = mem_read(cpu.u); cpu.u++;  (r is the read)
PulledU(r) == [m |-> [r.m EXCEPT !.cpu.u = W16(@ + 1)], v |-> W8(r.v)]
PullU(m) == PulledU(mem_read(m, m.cpu.u))

\* val = mem_read(cpu.u) << 8; cpu.u++; val += mem_read(cpu.u); cpu.u++;
PullU16Low(hi) == Join16(hi.v, PullU(hi.m))
PullU16(m) == PullU16Low(PullU(m))

\* pulu(): each register of the pull list, from the value p pulled.
PuluCc(p) == [p.m EXCEPT !.cc = set_cc(p.v)]
PuluA(p) == [p.m EXCEPT !.cpu.a = p.v]
PuluB(p) == [p.m EXCEPT !.cpu.b = p.v]
PuluDp(p) == [p.m EXCEPT !.cpu.dp = p.v]
PuluX(p) == [p.m EXCEPT !.cpu.x = p.v]
PuluY(p) == [p.m EXCEPT !.cpu.y = p.v]
PuluS(p) == [p.m EXCEPT !.cpu.s = p.v]
PuluPc(p) == [p.m EXCEPT !.cpu.pc = p.v]

\* pulu(): the pull list up to each of its bits.
PuluTo0(m, l) == IF Bit(l, 0) = 1 THEN PuluCc(PullU(m)) ELSE m
PuluTo1(m, l) == IF Bit(l, 1) = 1 THEN PuluA(PullU(m)) ELSE m
PuluTo2(m, l) == IF Bit(l, 2) = 1 THEN PuluB(PullU(m)) ELSE m
PuluTo3(m, l) == IF Bit(l, 3) = 1 THEN PuluDp(PullU(m)) ELSE m
PuluTo4(m, l) == IF Bit(l, 4) = 1 THEN PuluX(PullU16(m)) ELSE m
PuluTo5(m, l) == IF Bit(l, 5) = 1 THEN PuluY(PullU16(m)) ELSE m
PuluTo6(m, l) == IF Bit(l, 6) = 1 THEN PuluS(PullU16(m)) ELSE m
PuluTo7(m, l) == IF Bit(l, 7) = 1 THEN PuluPc(PullU16(m)) ELSE m

\* pulu()
pulu(m, pull_list) ==
    PuluTo7(PuluTo6(PuluTo5(PuluTo4(PuluTo3(PuluTo2(PuluTo1(PuluTo0(
        m, pull_list), pull_list), pull_list), pull_list), pull_list),
        pull_list), pull_list), pull_list)

\* Index of the first entry of machine_code[lo..hi-1] whose op is op_code,
\* hi when the for loop ends without a match.
RECURSIVE SearchOpCode(_, _, _)
SearchOpCode(lo, hi, op) ==
    IF lo >= hi THEN hi
    ELSE IF OpOf(lo) = op THEN lo
    ELSE SearchOpCode(lo + 1, hi, op)

\* mem_read(cpu.pc); cpu.pc++;  (r is the read)
Fetched(r) == [m |-> [r.m EXCEPT !.cpu.pc = W16(@ + 1)], v |-> r.v]
Fetch8(m) == Fetched(mem_read(m, m.cpu.pc))

\* Two operand bytes, high byte first.
Fetch16Low(hi) == Join16(hi.v, Fetch8(hi.m))
Fetch16(m) == Fetch16Low(Fetch8(m))

\* get_eff_addr(), the effective address of each mode from the operand r.
EaDirect(r, dp) == [m |-> r.m, ea |-> W16(dp * 256 + r.v)]
EaRelative(r) == [m |-> r.m, ea |-> W16(r.m.cpu.pc + SIG_EXTEND(r.v))]
EaLRelative(r) == [m |-> r.m, ea |-> W16(r.m.cpu.pc + r.v)]
EaExtended(r) == [m |-> r.m, ea |-> r.v]

\* get_eff_addr(), *index_reg for the post-byte operand.
IndexReg(m, operand) ==
    CASE BitAnd(operand, 96) = 0 -> m.cpu.x
      [] BitAnd(operand, 96) = 32 -> m.cpu.y
      [] BitAnd(operand, 96) = 64 -> m.cpu.u
      [] OTHER -> m.cpu.s

\* get_eff_addr(), ADDR_INDEXED with the post-byte r read: the 5-bit offset
\* and the zero offset without indirection.  The other indexed modes are
\* outside this model.
EaIndexed(r) ==
    IF BitAnd(r.v, 128) = 0
    THEN LET operand == BitAnd(r.v, 31) IN
         [m |-> r.m,
          ea |-> W16(IndexReg(r.m, r.v)
                     + (IF BitAnd(operand, 16) # 0 THEN operand + 65520
                        ELSE operand))]
    ELSE IF BitAnd(r.v, 15) = 4 /\ BitAnd(r.v, 16) = 0
    THEN [m |-> r.m, ea |-> IndexReg(r.m, r.v)]
    ELSE [m |-> [r.m EXCEPT !.oos = TRUE], ea |-> 0]

\* machine_code[idx].mode as get_eff_addr() reads it.  An index past the
\* last entry reads whatever int follows the table; the machine is marked.
TableMode(m, idx) ==
    IF idx < TableSize THEN [m |-> m, v |-> ModeOf(idx)]
    ELSE [m |-> [m EXCEPT !.ub = TRUE], v |-> m.inp.stray_mode]

\* get_eff_addr(), the switch on the addressing mode.
EaOfMode(m, mode) ==
    CASE mode = ADDR_DIRECT -> EaDirect(Fetch8(m), m.cpu.dp)
      [] mode = ADDR_RELATIVE -> EaRelative(Fetch8(m))
      [] mode = ADDR_LRELATIVE -> EaLRelative(Fetch16(m))
      [] mode = ADDR_EXTENDED -> EaExtended(Fetch16(m))
      [] mode = ADDR_IMMEDIATE ->
            [m |-> [m EXCEPT !.cpu.pc = W16(@ + 1)], ea |-> m.cpu.pc]
      [] mode = ADDR_LIMMEDIATE ->
            [m |-> [m EXCEPT !.cpu.pc = W16(@ + 2)], ea |-> m.cpu.pc]
      [] mode = ADDR_INHERENT -> [m |-> m, ea |-> 0]
      [] mode = ADDR_INDEXED -> EaIndexed(Fetch8(m))
      [] OTHER -> [m |-> [m EXCEPT !.cpu.cpu_state = CPU_EXCEPTION], ea |-> 0]

\* get_eff_addr(): the machine after the operand bytes are consumed and the
\* effective address.
get_eff_addr(m0, idx) == EaOfMode(TableMode(m0, idx).m, TableMode(m0, idx).v)

\* operand8 = mem_read(eff_addr); eff_addr++; (operand8 << 8) + mem_read(eff_addr)
Load16Low(hi, ea) == Join16(W8(hi.v), mem_read(hi.m, ea + 1))
Load16(m, ea) == Load16Low(mem_read(m, ea), ea)

\* The flags a 16-bit load sets.
LoadFlags16(m, v) == [eval_cc_n16(eval_cc_z16(m, v), v) EXCEPT !.cc.v = CC_FLAG_CLR]

\* The flags an 8-bit load or store sets.
LoadFlags8(m, v) == [eval_cc_n(eval_cc_z(m, v), v) EXCEPT !.cc.v = CC_FLAG_CLR]

\* cpu_run(), the load instructions, from the operand r read.
LoadA(r) == LoadFlags8([r.m EXCEPT !.cpu.a = W8(r.v)], W8(r.v))
LoadB(r) == LoadFlags8([r.m EXCEPT !.cpu.b = W8(r.v)], W8(r.v))
LoadU(r) == LoadFlags16([r.m EXCEPT !.cpu.u = r.v], r.v)
LoadX(r) == LoadFlags16([r.m EXCEPT !.cpu.x = r.v], r.v)
LoadY(r) == LoadFlags16([r.m EXCEPT !.cpu.y = r.v], r.v)
LoadS(r) == [LoadFlags16([r.m EXCEPT !.cpu.s = r.v], r.v) EXCEPT !.cpu.nmi_armed = 1]

\* cpu_run(), the instructions with an 8-bit operand r passed to a function.
OrccOperand(r) == orcc(r.m, W8(r.v))
AndccOperand(r) == andcc(r.m, W8(r.v))
TfrOperand(r) == tfr(r.m, W8(r.v))
ExgOperand(r) == exg(r.m, W8(r.v))
PuluOperand(r) == pulu(r.m, W8(r.v))
CwaiOperand(r) == cwai(r.m, W8(r.v))

\* cpu_run(), STS: mem_write(eff_addr, cpu.s >> 8);
\* mem_write(eff_addr + 1, cpu.s) and the flags.
StoreS(m, ea) ==
    LoadFlags16(mem_write(mem_write(m, ea, GET_REG_HIGH(m.cpu.s)), ea + 1,
                          GET_REG_LOW(m.cpu.s)),
                m.cpu.s)

\* cpu_run(), the switch of the 0x10 page.
ExecPage10(m, op, ea) ==
    CASE op \in {206, 222, 238, 254} -> LoadS(Load16(m, ea))
      [] op \in {142, 158, 174, 190} -> LoadY(Load16(m, ea))
      [] op \in {223, 239, 255} -> StoreS(m, ea)
      [] op \in {131, 147, 163, 179, 140, 156, 172, 188,
                 159, 175, 191} \cup (33..47) ->
            [m EXCEPT !.oos = TRUE]
      [] op = 63 -> swi(m, 2)
      [] OTHER -> [m EXCEPT !.cpu.cpu_state = CPU_EXCEPTION]

\* cpu_run(), the switch of the 0x11 page.  CMPU and CMPS are outside this
\* model.
ExecPage11(m, op, ea) ==
    CASE op \in {131, 147, 163, 179, 140, 156, 172, 188} ->
            [m EXCEPT !.oos = TRUE]
      [] op = 63 -> swi(m, 3)
      [] OTHER -> [m EXCEPT !.cpu.cpu_state = CPU_EXCEPTION]

\* cpu_run(), the switch of the one-byte op-codes.
ExecPage0(m, op, ea) ==
    CASE op = 18 -> m
      [] op = 19 -> [m EXCEPT !.cpu.cpu_state = CPU_SYNC]
      [] op = 26 -> OrccOperand(mem_read(m, ea))
      [] op = 28 -> AndccOperand(mem_read(m, ea))
      [] op = 30 -> ExgOperand(mem_read(m, ea))
      [] op = 31 -> TfrOperand(mem_read(m, ea))
      [] op = 48 -> eval_cc_z16([m EXCEPT !.cpu.x = ea], ea)
      [] op = 49 -> eval_cc_z16([m EXCEPT !.cpu.y = ea], ea)
      [] op = 50 -> [m EXCEPT !.cpu.s = ea, !.cpu.nmi_armed = 1]
      [] op = 51 -> [m EXCEPT !.cpu.u = ea]
      [] op = 55 -> PuluOperand(mem_read(m, ea))
      [] op = 25 -> daa(m)
      [] op = 61 -> mul(m)
      [] op = 63 -> swi(m, 1)
      [] op = 59 -> rti(m)
      [] op = 60 -> CwaiOperand(mem_read(m, ea))
      [] op \in {14, 110, 126, 32, 22} -> [m EXCEPT !.cpu.pc = ea]
      [] op \in {134, 150, 166, 182} -> LoadA(mem_read(m, ea))
      [] op \in {198, 214, 230, 246} -> LoadB(mem_read(m, ea))
      [] op \in {206, 222, 238, 254} -> LoadU(Load16(m, ea))
      [] op \in {142, 158, 174, 190} -> LoadX(Load16(m, ea))
      [] op \in {151, 167, 183} ->
            LoadFlags8(mem_write(m, ea, m.cpu.a), m.cpu.a)
      [] op \in {215, 231, 247} ->
            LoadFlags8(mem_write(m, ea, m.cpu.b), m.cpu.b)
      [] ModeOf(op) = ILLEGAL_OP -> [m EXCEPT !.cpu.cpu_state = CPU_EXCEPTION]
      [] OTHER -> [m EXCEPT !.oos = TRUE]

\* cpu_run(), the switch entered with the result e of get_eff_addr().
ExecPage0At(e, op) == ExecPage0(e.m, op, e.ea)
ExecPage10At(e, op) == ExecPage10(e.m, op, e.ea)
ExecPage11At(e, op) == ExecPage11(e.m, op, e.ea)

\* cpu_run(), the 0x10 page: f2 is the read of the second op-code byte.
FetchPage10(f2) ==
    LET m2 == [f2.m EXCEPT !.cpu.pc = W16(@ + 1), !.op_code = f2.v] IN
    ExecPage10At(get_eff_addr(m2, SearchOpCode(OP_CODE10, OP_CODE11, f2.v)), f2.v)

\* cpu_run(), the 0x11 page: f2 is the read of the second op-code byte.  The
\* search runs to the end of the table.
FetchPage11(f2) ==
    LET m2 == [f2.m EXCEPT !.cpu.pc = W16(@ + 1), !.op_code = f2.v] IN
    ExecPage11At(get_eff_addr(m2, SearchOpCode(OP_CODE11, TableSize, f2.v)), f2.v)

\* cpu_run(), decoding: f is the read of the op-code byte at PC.
Decode(f) ==
    LET m1 == [f.m EXCEPT !.cpu.pc = W16(@ + 1), !.op_code = f.v] IN
    IF f.v = 16 THEN FetchPage10(mem_read(m1, m1.cpu.pc))
    ELSE IF f.v = 17 THEN FetchPage11(mem_read(m1, m1.cpu.pc))
    ELSE ExecPage0At(get_eff_addr(m1, f.v), f.v)

\* cpu_run(), from the op-code fetch to the end of the switch.
FetchExecute(m) == Decode(mem_read(m, m.cpu.pc))

\* cpu_run(), after the interrupt branches: mi is the machine they leave.
AfterService(mi) ==
    IF mi.cpu.cpu_state = CPU_SYNC THEN mi
    ELSE FetchExecute([mi EXCEPT !.cpu.cpu_state = CPU_EXEC])

\* cpu_run()
Run(m0) ==
    LET m == [m0 EXCEPT !.op_code = -1] IN
    IF m.cpu.reset_asserted # 0 THEN ResetEntry(m)
    ELSE IF m.cpu.halt_asserted # 0 THEN [m EXCEPT !.cpu.cpu_state = CPU_HALTED]
    ELSE AfterService(ServiceInterrupts(m))

(***************************************************************************)
(* Inputs: the programs in memory                                          *)
(***************************************************************************)

\* Deepest stack the model follows, in bytes below the stack top the
\* programs load into S.
MaxStack == 40

\* Most calls of the latch setters (cpu_halt, cpu_reset, cpu_nmi_trigger,
\* cpu_firq, cpu_irq) the host makes in one run; calls counts them.
MaxCalls == 4

StackTop == Layout.stack

\* Register set-up every program starts with, at Layout.run:
\*   LDA #$A1; LDB #$B2; TFR B,DP; LDX #$1357; LDY #$2468; LDU #$3579;
\*   LDS #$7FFF; ORCC #$2B; ANDCC #$AF
\* so that the next instruction is at 0x1234.
SetupCode ==
    << 134, 161, 198, 178, 31, 155, 142, 19, 87, 16, 142, 36, 104,
       206, 53, 121, 16, 206, GET_REG_HIGH(StackTop), GET_REG_LOW(StackTop),
       26, 43, 28, 175 >>

BodyAddress == Layout.run + Len(SetupCode)

\* Main-program bodies, each ending in JMP BodyAddress:
\*   1: NOP; SYNC; NOP
\*   2: CWAI #$12; NOP
\*   3: (illegal 0x01); NOP; STA $8000; STB $0300; STA <$10
\*   4: ORCC #$50; SYNC; NOP; ANDCC #$AF
JmpBody == << 126, GET_REG_HIGH(BodyAddress), GET_REG_LOW(BodyAddress) >>
Bodies ==
    << << 18, 19, 18 >> \o JmpBody,
       << 60, 18, 18 >> \o JmpBody,
       << 1, 18, 183, 128, 0, 247, 3, 0, 151, 16 >> \o JmpBody,
       << 26, 80, 19, 18, 28, 175 >> \o JmpBody >>

\* Interrupt handlers, the same code at each of the three vectors:
\*   1: RTI     2: NOP; RTI
Handlers == << << 59 >>, << 18, 59 >> >>

\* The cells a program image sets, as a memory difference.
Place(mem, base, bytes) ==
    LET RECURSIVE go(_, _)
        go(acc, k) == IF k > Len(bytes) THEN acc
                      ELSE go(Store(acc, base + k - 1, bytes[k]), k + 1)
    IN go(mem, 1)

ProgramImage(b, h) ==
    Place(Place(Place(Place(<< >>, Layout.run, SetupCode \o Bodies[b]),
                      Layout.irq, Handlers[h]),
                Layout.firq, Handlers[h]),
          Layout.nmi, Handlers[h])

(***************************************************************************)
(* The state machine                                                       *)
(***************************************************************************)
\* The levels of the host's pins and the byte of the keyboard controller
\* when no key and no button is touched; stray_mode is the int a read past
\* the end of machine_code[] finds where a mode would be.
QuietInputs ==
    [scan_code |-> 0, joystk_comp |-> 0, rjoystk_button |-> 1, stray_mode |-> 0]

\* The values a read past the end of machine_code[] is followed through: no
\* addressing mode, a mode without operand bytes and a mode with one.
StrayModes == {0, ADDR_INHERENT, ADDR_IMMEDIATE}

\* The machine a call starts from, with the inputs inp it meets.
MachineWith(inp) ==
    [cpu |-> cpu, cc |-> cc, mem |-> data_byte, op_code |-> op_code,
     oos |-> FALSE, ub |-> FALSE, pia |-> pia, dev |-> dev, inp |-> inp,
     io |-> << >>]

Machine == MachineWith(QuietInputs)

\* The statics of pia.c as initialised.
PiaInit ==
    [pia0_cb1_int_enabled |-> 0, pia0_crb |-> 0, function_key |-> 0,
     keyboard_rows |-> << 255, 255, 255, 255, 255, 255, 255 >>,
     halted |-> FALSE,
     pia1_cra |-> 0, pia1_crb |-> 0, audio_mux_select |-> AUDIO_MUX_DAC,
     cas_file |-> NoEntry,
     byte |-> 0, bit_index |-> 0, bit_timing_threshold |-> 0,
     bit_timing_count |-> 0]

\* The statics of sam.c, vdg.c, sdfat32.c and loader.c as sam_init(),
\* vdg_init(), fat32_init() and loader_init() leave them.
DevInit ==
    [sam_registers |-> [vdg_mode |-> 0, vdg_display_offset |-> 2, page |-> 1,
                        mpu_rate |-> 0, memory_size |-> 2,
                        memory_map_type |-> 0],
     vdg |-> [video_ram_offset |-> 2, sam_video_mode |-> 0,
              pia_video_mode |-> 0, current_mode |-> "ALPHA_INTERNAL",
              prev_mode |-> "ALPHA_INTERNAL"],
     file |-> [file_is_open |-> 0, file_start_cluster |-> 0,
               current_position |-> 0, file_size |-> 0],
     mounted_cas_file |-> NoEntry]

\* The receive buffer and its counters as bcm2835_auxuart_init() leaves
\* them, with no call of the reader in progress.  recv_buffer holds the
\* cells written so far (the others are 0); pc is the reader's position,
\* reg the register its recv_cnt-- loaded recv_cnt into, count, rxCount and
\* i the locals of bcm2835_auxuart_rx_data(); arrived counts the bytes the
\* line delivered, stored and got are the bytes the ISR put in the buffer
\* and the bytes the reader handed to its caller, in order.
UartInit ==
    [recv_buffer |-> << >>, recv_cnt |-> 0, recv_wr_ptr |-> 0,
     recv_rd_ptr |-> 0, pc |-> "idle", reg |-> 0, count |-> 0, rxCount |-> 0,
     i |-> 0, arrived |-> 0, stored |-> << >>, got |-> << >>]

\* No call of the memory or PIA interface was made yet.
NoCall == [fn |-> "none"]

\* The host with no key event pending in the keyboard controller and no
\* cassette input read: pa_reads counts the reads of PIA1-PA, lead is the
\* count at which the cassette file was opened (-1 before that).
QuietHost == [scan_codes |-> << >>, pa_reads |-> 0, lead |-> -1]

\* The memory attributes, the PIA and the call record as main() leaves them,
\* in front of a quiet host.
DevicesInit ==
    /\ memory_attr = << >>
    /\ pia = PiaInit
    /\ ret = NoCall
    /\ host = QuietHost
    /\ dev = DevInit
    /\ uart = UartInit

\* cpu_init(Layout.run) followed by main()'s cpu_reset(1), with a program
\* loaded in RAM.
Init ==
    /\ cpu = [x |-> 0, y |-> 0, u |-> 0, s |-> 0, pc |-> Layout.run,
              a |-> 0, b |-> 0, dp |-> 0,
              nmi_armed |-> 0, nmi_latched |-> 0, halt_asserted |-> 0,
              reset_asserted |-> 1, irq_asserted |-> 0, firq_asserted |-> 0,
              cpu_state |-> CPU_HALTED]
    /\ cc = set_cc(0)
    /\ \E b \in 1..Len(Bodies), h \in 1..Len(Handlers) :
          data_byte = ProgramImage(b, h)
    /\ op_code = -1
    /\ calls = 0
    /\ DevicesInit

cpu_halt ==
    /\ calls < MaxCalls
    /\ \E state \in (0..1) \ {cpu.halt_asserted} : cpu' = [cpu EXCEPT !.halt_asserted = state]
    /\ calls' = calls + 1
    /\ UNCHANGED <<cc, data_byte, op_code, memory_attr, pia, ret, host, dev, uart>>

cpu_reset ==
    /\ calls < MaxCalls
    /\ \E state \in (0..1) \ {cpu.reset_asserted} : cpu' = [cpu EXCEPT !.reset_asserted = state]
    /\ calls' = calls + 1
    /\ UNCHANGED <<cc, data_byte, op_code, memory_attr, pia, ret, host, dev, uart>>

cpu_nmi_trigger ==
    /\ calls < MaxCalls
    /\ cpu.nmi_latched = 0
    /\ cpu' = [cpu EXCEPT !.nmi_latched = 1]
    /\ calls' = calls + 1
    /\ UNCHANGED <<cc, data_byte, op_code, memory_attr, pia, ret, host, dev, uart>>

cpu_firq ==
    /\ calls < MaxCalls
    /\ \E state \in (0..1) \ {cpu.firq_asserted} : cpu' = [cpu EXCEPT !.firq_asserted = state]
    /\ calls' = calls + 1
    /\ UNCHANGED <<cc, data_byte, op_code, memory_attr, pia, ret, host, dev, uart>>

cpu_irq ==
    /\ calls < MaxCalls
    /\ \E state \in (0..1) \ {cpu.irq_asserted} : cpu' = [cpu EXCEPT !.irq_asserted = state]
    /\ calls' = calls + 1
    /\ UNCHANGED <<cc, data_byte, op_code, memory_attr, pia, ret, host, dev, uart>>

\* The stack is within the depth the model follows.
StackBounded ==
    \/ cpu.s = 0
    \/ cpu.s \in (StackTop - MaxStack)..StackTop

\* The results a call of cpu_run() can have: the one computed, or, when the
\* call read past the end of machine_code[], one for every value read.
RunOutcomes(r) ==
    IF r.ub
    THEN {Run(MachineWith([QuietInputs EXCEPT !.stray_mode = s])) : s \in StrayModes}
    ELSE {r}

cpu_run ==
    /\ StackBounded
    /\ \E r \in RunOutcomes(Run(Machine)) :
       /\ ~r.oos /\ ~r.pia.halted
       /\ cpu' = r.cpu
       /\ cc' = r.cc
       /\ data_byte' = r.mem
       /\ op_code' = r.op_code
       /\ pia' = r.pia
       /\ dev' = r.dev
       /\ UNCHANGED <<calls, memory_attr, ret, host, uart>>

Next ==
    \/ cpu_halt
    \/ cpu_reset
    \/ cpu_nmi_trigger
    \/ cpu_firq
    \/ cpu_irq
    \/ cpu_run

Spec == Init /\ [][Next]_vars

\* Every op-code the programs reach is one the model covers.
InScope == StackBounded => ~Run(Machine).oos

(***************************************************************************)
(* Programs that write S and programs that run the software interrupts     *)
(***************************************************************************)

\* The end of every such program: NOP; BRA back to the NOP.
IdleLoop == << 18, 32, 253 >>

\* Programs loaded at Layout.run and run from reset, S not yet written:
\*   1: LDX #$7FFF; TFR X,S        2: LDX #$7FFF; EXG X,S
\*   3: LDX #$7FFF; LEAS ,X        4: LDX #$8000; LEAS -1,X
\*   5: LDU #$0300; PULU S   (0x0300 holds $7FFF)
\*   6: LDS #$7FFF; ANDCC #$AF; SWI; SWI2; SWI3
SwiPrograms ==
    << << 142, 127, 255, 31, 20 >> \o IdleLoop,
       << 142, 127, 255, 30, 20 >> \o IdleLoop,
       << 142, 127, 255, 50, 132 >> \o IdleLoop,
       << 142, 128, 0, 50, 31 >> \o IdleLoop,
       << 206, 3, 0, 55, 64 >> \o IdleLoop,
       << 16, 206, 127, 255, 28, 175, 63, 16, 63, 17, 63 >> \o IdleLoop >>

\* The image of program b with handler h at every vector target and the
\* stack top stored at 0x0300 for the PULU.
SwiImage(b, h) ==
    Place(Place(Place(Place(Place(Place(Place(Place(<< >>,
        Layout.run, SwiPrograms[b]),
        768, << GET_REG_HIGH(StackTop), GET_REG_LOW(StackTop) >>),
        Layout.irq, Handlers[h]),
        Layout.firq, Handlers[h]),
        Layout.nmi, Handlers[h]),
        Layout.swi, Handlers[h]),
        Layout.swi2, Handlers[h]),
        Layout.swi3, Handlers[h])

\* cpu_init(Layout.run) followed by main()'s cpu_reset(1), with one of
\* these programs loaded.
InitSwi ==
    /\ cpu = [x |-> 0, y |-> 0, u |-> 0, s |-> 0, pc |-> Layout.run,
              a |-> 0, b |-> 0, dp |-> 0,
              nmi_armed |-> 0, nmi_latched |-> 0, halt_asserted |-> 0,
              reset_asserted |-> 1, irq_asserted |-> 0, firq_asserted |-> 0,
              cpu_state |-> CPU_HALTED]
    /\ cc = set_cc(0)
    /\ \E b \in 1..Len(SwiPrograms), h \in 1..Len(Handlers) :
          data_byte = SwiImage(b, h)
    /\ op_code = -1
    /\ calls = 0
    /\ DevicesInit

SpecSwi == InitSwi /\ [][Next]_vars

\* Every op-code these programs reach is one the model covers.
InScopeSwi == StackBounded => \A r \in RunOutcomes(Run(Machine)) : ~r.oos

(***************************************************************************)
(* The memory interface called by the host                                 *)
(***************************************************************************)

\* Most calls of the memory interface in one run; calls counts them.
MaxMemCalls == 3

\* The addresses the host reads and writes: one below and one above the
\* range, two RAM cells, a ROM cell, PIA0_CRB and the high byte of the IRQ
\* vector.
MemAddresses == {-1, MEMORY, 17152, 17153, DRAGON_ROM_START, PIA0_CRB, VEC_IRQ}

\* The bytes the host writes.
MemBytes == {90, 129}

\* The spans the host defines: RAM cells, PIA0_CRB, a ROM cell, and spans
\* that start below the range, end above it, or end before they start.
MemSpans ==
    { <<17152, 17152>>, <<17152, 17153>>, <<PIA0_CRB, PIA0_CRB>>,
      <<DRAGON_ROM_START, DRAGON_ROM_START>>,
      <<-1, 17152>>, <<17153, MEMORY>>, <<17153, 17152>> }

\* The handlers the host passes to mem_define_io().
MemHandlers == {"0L", "io_handler_vector_redirect", "io_handler_pia0_crb"}

\* The machine m a call leaves becomes the state.
Commit(m) ==
    /\ cpu' = m.cpu
    /\ cc' = m.cc
    /\ data_byte' = m.mem
    /\ pia' = m.pia
    /\ dev' = m.dev
    /\ UNCHANGED <<op_code, memory_attr, uart>>

\* mem_read(a) with the inputs inp, as call number calls + 1 of at most max.
MemReadCall(a, inp, max) ==
    /\ calls < max /\ ~pia.halted
    /\ \E r \in {mem_read(MachineWith(inp), a)} :
       /\ ~r.m.oos
       /\ Commit(r.m)
       /\ ret' = [fn |-> "mem_read", address |-> a, value |-> r.v,
                  io |-> r.m.io, inp |-> inp]
    /\ calls' = calls + 1

\* mem_write(a, v)
MemWriteCall(a, v, inp, max) ==
    /\ calls < max /\ ~pia.halted
    /\ \E m \in {mem_write(MachineWith(inp), a, v)} :
       /\ ~m.oos
       /\ Commit(m)
       /\ ret' = [fn |-> "mem_write", address |-> a, data |-> v,
                  value |-> mem_write_result(a), io |-> m.io, inp |-> inp]
    /\ calls' = calls + 1

MemRead ==
    /\ \E a \in MemAddresses : MemReadCall(a, QuietInputs, MaxMemCalls)
    /\ UNCHANGED host

MemWrite ==
    /\ \E a \in MemAddresses, v \in MemBytes :
          MemWriteCall(a, v, QuietInputs, MaxMemCalls)
    /\ UNCHANGED host

MemDefineRom ==
    /\ calls < MaxMemCalls
    /\ \E span \in MemSpans :
       /\ memory_attr' = mem_define_rom(span[1], span[2])
       /\ ret' = [fn |-> "mem_define_rom", addr_start |-> span[1],
                  addr_end |-> span[2],
                  value |-> mem_define_result(span[1], span[2])]
    /\ calls' = calls + 1
    /\ UNCHANGED <<cpu, cc, data_byte, op_code, pia, host, dev, uart>>

MemDefineIo ==
    /\ calls < MaxMemCalls
    /\ \E span \in MemSpans, handler \in MemHandlers :
       /\ memory_attr' = mem_define_io(span[1], span[2], handler)
       /\ ret' = [fn |-> "mem_define_io", addr_start |-> span[1],
                  addr_end |-> span[2], io_handler |-> handler,
                  value |-> mem_define_result(span[1], span[2])]
    /\ calls' = calls + 1
    /\ UNCHANGED <<cpu, cc, data_byte, op_code, pia, host, dev, uart>>

\* The state after main()'s initialisation and cpu_init(), with three bytes
\* loaded at 0x0300, the cells the redirect handler reads for 0x4300.
InitMem ==
    /\ cpu = [x |-> 0, y |-> 0, u |-> 0, s |-> 0, pc |-> Layout.run,
              a |-> 0, b |-> 0, dp |-> 0,
              nmi_armed |-> 0, nmi_latched |-> 0, halt_asserted |-> 0,
              reset_asserted |-> 1, irq_asserted |-> 0, firq_asserted |-> 0,
              cpu_state |-> CPU_HALTED]
    /\ cc = set_cc(0)
    /\ data_byte = Place(<< >>, 768, << 17, 34, 51 >>)
    /\ op_code = -1
    /\ calls = 0
    /\ DevicesInit

NextMem ==
    \/ MemRead
    \/ MemWrite
    \/ MemDefineRom
    \/ MemDefineIo

SpecMem == InitMem /\ [][NextMem]_vars

(***************************************************************************)
(* PIA0: the field-sync interrupt                                          *)
(***************************************************************************)

\* Most calls of the PIA0 registers and of pia_vsync_irq() in one run.
MaxPiaCalls == 6

\* The bytes the CPU writes to CRB: field sync disabled, enabled, and a
\* byte with only bit 7 set.
CrbBytes == {52, 53, 128}

\* The registers and latches cpu_init() leaves.
CpuInit ==
    [x |-> 0, y |-> 0, u |-> 0, s |-> 0, pc |-> Layout.run,
     a |-> 0, b |-> 0, dp |-> 0,
     nmi_armed |-> 0, nmi_latched |-> 0, halt_asserted |-> 0,
     reset_asserted |-> 1, irq_asserted |-> 0, firq_asserted |-> 0,
     cpu_state |-> CPU_HALTED]

PiaCrbWrite ==
    /\ \E v \in CrbBytes : MemWriteCall(PIA0_CRB, v, QuietInputs, MaxPiaCalls)
    /\ UNCHANGED host

PiaCrbRead ==
    /\ MemReadCall(PIA0_CRB, QuietInputs, MaxPiaCalls)
    /\ UNCHANGED host

PiaPbRead ==
    /\ MemReadCall(PIA0_PB, QuietInputs, MaxPiaCalls)
    /\ UNCHANGED host

\* pia_vsync_irq() called when the field-sync interval has elapsed; a call
\* before that returns at once and is left out.
PiaVsync ==
    /\ calls < MaxPiaCalls
    /\ Commit(pia_vsync_irq(MachineWith(QuietInputs)))
    /\ ret' = [fn |-> "pia_vsync_irq"]
    /\ calls' = calls + 1
    /\ UNCHANGED host

\* The state after main()'s initialisation.
InitPia ==
    /\ cpu = CpuInit
    /\ cc = set_cc(0)
    /\ data_byte = << >>
    /\ op_code = -1
    /\ calls = 0
    /\ DevicesInit

NextPia ==
    \/ PiaCrbWrite
    \/ PiaCrbRead
    \/ PiaPbRead
    \/ PiaVsync

SpecPia == InitPia /\ [][NextPia]_vars

(***************************************************************************)
(* PIA0: the keyboard                                                      *)
(***************************************************************************)

\* Most calls of the keyboard side of PIA0 in one run.
MaxKbdCalls == 3

\* The make codes scan_code_table[] has a row for.
KeyCodes == 1..(Len(scan_code_table) - 1)

\* The make codes of F1 to F10.
FunctionCodes == (SCAN_CODE_F1 + 1)..(SCAN_CODE_F1 + 10)

\* What the keyboard controller holds when a run starts: a key pressed, a
\* key pressed and released, or a function key pressed and then F1 or F2.
HostScripts ==
    {<< k >> : k \in KeyCodes}
    \cup {<< k, k + 128 >> : k \in KeyCodes}
    \cup {<< f, g >> : f \in FunctionCodes, g \in {59, 60}}

\* The column patterns the CPU writes to PB: all columns, column 1, none.
PbBytes == {0, 253, 255}

\* rpi_keyboard_read() and the pins as a PB write meets them.
PbInputs(comp) ==
    [scan_code |-> IF host.scan_codes = << >> THEN 0 ELSE Head(host.scan_codes),
     joystk_comp |-> comp, rjoystk_button |-> 1, stray_mode |-> 0]

\* The pins as a PA read meets them.
PaInputs(comp, button) ==
    [scan_code |-> 0, joystk_comp |-> comp, rjoystk_button |-> button,
     stray_mode |-> 0]

KbdPbWrite ==
    /\ \E v \in PbBytes, comp \in 0..1 :
          MemWriteCall(PIA0_PB, v, PbInputs(comp), MaxKbdCalls)
    /\ host' = [host EXCEPT !.scan_codes = IF @ = << >> THEN @ ELSE Tail(@)]

KbdPaRead ==
    /\ \E comp \in 0..1, button \in 0..1 :
          MemReadCall(PIA0_PA, PaInputs(comp, button), MaxKbdCalls)
    /\ UNCHANGED host

KbdFunctionKey ==
    /\ calls < MaxKbdCalls /\ ~pia.halted
    /\ \E r \in {pia_function_key(MachineWith(QuietInputs))} :
       /\ Commit(r.m)
       /\ ret' = [fn |-> "pia_function_key", value |-> r.v]
    /\ calls' = calls + 1
    /\ UNCHANGED host

\* The state after main()'s initialisation, with key events waiting.
InitKbd ==
    /\ cpu = CpuInit
    /\ cc = set_cc(0)
    /\ data_byte = << >>
    /\ op_code = -1
    /\ calls = 0
    /\ memory_attr = << >>
    /\ pia = PiaInit
    /\ ret = NoCall
    /\ dev = DevInit
    /\ uart = UartInit
    /\ \E script \in HostScripts :
          host = [QuietHost EXCEPT !.scan_codes = script]

NextKbd ==
    \/ KbdPbWrite
    \/ KbdPaRead
    \/ KbdFunctionKey

SpecKbd == InitKbd /\ [][NextKbd]_vars

\* No scan code these runs deliver indexes past scan_code_table[].
InScopeKbd ==
    \A v \in PbBytes :
        ~mem_write(MachineWith(PbInputs(0)), PIA0_PB, v).oos

(***************************************************************************)
(* PIA1: the cassette input                                                *)
(***************************************************************************)

\* Most calls in one run of the cassette side of PIA1, and the number of
\* calls at the start of a run among which the loader mounts a file and the
\* CPU writes CRA.
MaxCasCalls == 200
MaxCraCalls == 3

\* The bytes the CPU writes to CRA: CA2 an output with the motor off and
\* on, and CA2 an input with bit 3 set.
CraBytes == {52, 60, 24}

\* loader(): the user mounts the cassette file at head (the memcpy() into
\* mounted_cas_file).
CasMount ==
    /\ calls < MaxCraCalls
    /\ \E head \in CasHeads :
       /\ dev.mounted_cas_file # DirEntry(head)
       /\ dev' = [dev EXCEPT !.mounted_cas_file = DirEntry(head)]
    /\ ret' = [fn |-> "loader"]
    /\ calls' = calls + 1
    /\ UNCHANGED <<cpu, cc, data_byte, op_code, memory_attr, pia, host, uart>>

\* mem_write(PIA1_CRA, v); the tape counter notes the read count at which
\* the file was opened.
CasCraWrite ==
    /\ calls < MaxCraCalls
    /\ \E v \in CraBytes : MemWriteCall(PIA1_CRA, v, QuietInputs, MaxCasCalls)
    /\ host' = [host EXCEPT !.lead =
                   IF dev.file.file_is_open = 0 /\ dev'.file.file_is_open = 1
                   THEN host.pa_reads ELSE @]

\* mem_read(PIA1_PA); the tape counter counts the read.
CasPaRead ==
    /\ MemReadCall(PIA1_PA, QuietInputs, MaxCasCalls)
    /\ host' = [host EXCEPT !.pa_reads = @ + 1]

\* The state after main()'s initialisation.
InitCas ==
    /\ cpu = CpuInit
    /\ cc = set_cc(0)
    /\ data_byte = << >>
    /\ op_code = -1
    /\ calls = 0
    /\ DevicesInit

NextCas ==
    \/ CasMount
    \/ CasCraWrite
    \/ CasPaRead

SpecCas == InitCas /\ [][NextCas]_vars

(***************************************************************************)
(* PIA1: a second cassette file mounted while the first is played          *)
(***************************************************************************)

\* Most calls in one run of the loader and the cassette side of PIA1.
MaxTapeCalls == 7

\* loader(): the user mounts the cassette file at head.
TapeMount ==
    /\ calls < MaxTapeCalls
    /\ \E head \in CasHeads :
       /\ dev.mounted_cas_file # DirEntry(head)
       /\ dev' = [dev EXCEPT !.mounted_cas_file = DirEntry(head)]
    /\ ret' = [fn |-> "loader"]
    /\ calls' = calls + 1
    /\ UNCHANGED <<cpu, cc, data_byte, op_code, memory_attr, pia, host, uart>>

\* mem_write(PIA1_CRA, v)
TapeCraWrite ==
    /\ \E v \in CraBytes : MemWriteCall(PIA1_CRA, v, QuietInputs, MaxTapeCalls)
    /\ host' = [host EXCEPT !.lead =
                   IF dev.file.file_is_open = 0 /\ dev'.file.file_is_open = 1
                   THEN host.pa_reads ELSE @]

\* mem_read(PIA1_PA)
TapePaRead ==
    /\ MemReadCall(PIA1_PA, QuietInputs, MaxTapeCalls)
    /\ host' = [host EXCEPT !.pa_reads = @ + 1]

NextTape ==
    \/ TapeMount
    \/ TapeCraWrite
    \/ TapePaRead

SpecTape == InitCas /\ [][NextTape]_vars

(***************************************************************************)
(* VDG: the mode bits of SAM and PIA1-PB, and the render                   *)
(***************************************************************************)

\* Most calls in one run of the video side.
MaxVdgCalls == 5

\* The SAM addresses of the three VDG mode bits.
VdgSamAddresses == 65472..65477

\* The bytes the CPU writes to PIA1-PB: text with either colour set and
\* with the external alphabet, and the eight graphics modes.
VdgPbBytes == {0, 8, 16} \cup {128 + 16 * gm : gm \in 0..7}

VdgSamWrite ==
    /\ \E a \in VdgSamAddresses : MemWriteCall(a, 0, QuietInputs, MaxVdgCalls)
    /\ UNCHANGED host

VdgPbWrite ==
    /\ \E v \in VdgPbBytes : MemWriteCall(PIA1_PB, v, QuietInputs, MaxVdgCalls)
    /\ UNCHANGED host

VdgPbRead ==
    /\ MemReadCall(PIA1_PB, QuietInputs, MaxVdgCalls)
    /\ UNCHANGED host

\* vdg_render() called from the main loop.
VdgRender ==
    /\ calls < MaxVdgCalls /\ ~pia.halted
    /\ \E m \in {vdg_render(MachineWith(QuietInputs))} :
       /\ ~m.oos
       /\ Commit(m)
    /\ ret' = [fn |-> "vdg_render"]
    /\ calls' = calls + 1
    /\ UNCHANGED host

\* The state after main()'s initialisation.
InitVdg ==
    /\ cpu = CpuInit
    /\ cc = set_cc(0)
    /\ data_byte = << >>
    /\ op_code = -1
    /\ calls = 0
    /\ DevicesInit

NextVdg ==
    \/ VdgSamWrite
    \/ VdgPbWrite
    \/ VdgPbRead
    \/ VdgRender

SpecVdg == InitVdg /\ [][NextVdg]_vars

(***************************************************************************)
(* SAM: the control register                                               *)
(***************************************************************************)

\* Most accesses to the SAM control register in one run.
MaxSamCalls == 2

\* The addresses of the control register and the bytes the CPU writes.
SamAddresses == 65472..65503
SamBytes == {0, 255}

SamWrite ==
    /\ \E a \in SamAddresses, v \in SamBytes :
          MemWriteCall(a, v, QuietInputs, MaxSamCalls)
    /\ UNCHANGED host

SamRead ==
    /\ \E a \in SamAddresses : MemReadCall(a, QuietInputs, MaxSamCalls)
    /\ UNCHANGED host

\* The state after main()'s initialisation.
InitSam ==
    /\ cpu = CpuInit
    /\ cc = set_cc(0)
    /\ data_byte = << >>
    /\ op_code = -1
    /\ calls = 0
    /\ DevicesInit

NextSam ==
    \/ SamWrite
    \/ SamRead

SpecSam == InitSam /\ [][NextSam]_vars

(***************************************************************************)
(* Programs that multiply                                                  *)
(***************************************************************************)

\* The operand values of the multiplications.
MulOperands == {0, 1, 2, 16, 127, 128, 255}

\* The program loaded at Layout.run and run from reset:
\*   LDA #a; LDB #b; MUL; NOP; BRA back to the NOP
MulProgram(a, b) == << 134, a, 198, b, 61 >> \o IdleLoop

\* cpu_init(Layout.run) followed by main()'s cpu_reset(1), with one of
\* these programs loaded.
InitMul ==
    /\ cpu = CpuInit
    /\ cc = set_cc(0)
    /\ \E a \in MulOperands, b \in MulOperands :
          data_byte = Place(<< >>, Layout.run, MulProgram(a, b))
    /\ op_code = -1
    /\ calls = 0
    /\ DevicesInit

NextMul ==
    \/ cpu_reset
    \/ cpu_run

SpecMul == InitMul /\ [][NextMul]_vars

(***************************************************************************)
(* The reset button                                                        *)
(***************************************************************************)

\* Most calls in one run of the main loop with the reset button.
MaxRstCalls == 4

\* The register and RAM writes by which the program sets the devices up
\* before the button is pressed: field sync on, cassette motor on, a
\* graphics mode, SAM mode bit 0, the warm-start flag at 0x0071.
RstWrites ==
    {<< PIA0_CRB, 53 >>, << PIA1_CRA, 60 >>, << PIA1_PB, 128 >>,
     << 65473, 0 >>, << 113, 85 >>}

\* The scan codes waiting when the program writes the keyboard columns: A
\* pressed and F1 pressed.
RstScanCodes == {30, 59}

\* get_reset_state() and the switch of the main loop on its result: 0 for
\* no press, 1 for a short press, 2 for a long one.
RstButton ==
    /\ calls < MaxRstCalls /\ ~pia.halted
    /\ \E kind \in 0..2 :
       /\ \E m \in {IF kind = 2 THEN mem_write(Machine, 113, 0) ELSE Machine} :
             Commit([m EXCEPT !.cpu.reset_asserted = IF kind = 0 THEN 0 ELSE 1])
       /\ ret' = [fn |-> "get_reset_state", value |-> kind]
    /\ calls' = calls + 1
    /\ UNCHANGED host

RstWrite ==
    /\ \E w \in RstWrites : MemWriteCall(w[1], w[2], QuietInputs, MaxRstCalls)
    /\ UNCHANGED host

RstKey ==
    /\ \E k \in RstScanCodes :
          MemWriteCall(PIA0_PB, 0, [QuietInputs EXCEPT !.scan_code = k],
                       MaxRstCalls)
    /\ UNCHANGED host

RstPaRead ==
    /\ MemReadCall(PIA1_PA, QuietInputs, MaxRstCalls)
    /\ UNCHANGED host

RstVsync ==
    /\ calls < MaxRstCalls /\ ~pia.halted
    /\ Commit(pia_vsync_irq(MachineWith(QuietInputs)))
    /\ ret' = [fn |-> "pia_vsync_irq"]
    /\ calls' = calls + 1
    /\ UNCHANGED host

\* The state after main()'s initialisation and its cpu_reset(1), with the
\* idle loop loaded at Layout.run and a cassette file mounted.
InitRst ==
    /\ cpu = CpuInit
    /\ cc = set_cc(0)
    /\ data_byte = Place(<< >>, Layout.run, IdleLoop)
    /\ op_code = -1
    /\ calls = 0
    /\ memory_attr = << >>
    /\ pia = PiaInit
    /\ ret = NoCall
    /\ host = QuietHost
    /\ dev = [DevInit EXCEPT !.mounted_cas_file = DirEntry(1)]
    /\ uart = UartInit

NextRst ==
    \/ RstButton
    \/ RstWrite
    \/ RstKey
    \/ RstPaRead
    \/ RstVsync
    \/ cpu_run

SpecRst == InitRst /\ [][NextRst]_vars

(***************************************************************************)
(* Programs that decimal-adjust                                            *)
(***************************************************************************)

\* The values of A: every pairing of the high nibbles 0, 8, 9, 10, 15 with
\* the low nibbles 0, 9, 10, 15.  The flag bytes set C, H, both or neither.
DaaOperands == {16 * hn + ln : hn \in {0, 8, 9, 10, 15}, ln \in {0, 9, 10, 15}}
DaaFlags == {0, 1, 32, 33}

\* The program loaded at Layout.run and run from reset:
\*   ORCC #f; LDA #a; DAA; NOP; BRA back to the NOP
DaaProgram(a, f) == << 26, f, 134, a, 25 >> \o IdleLoop

\* cpu_init(Layout.run) followed by main()'s cpu_reset(1), with one of
\* these programs loaded.
InitDaa ==
    /\ cpu = CpuInit
    /\ cc = set_cc(0)
    /\ \E a \in DaaOperands, f \in DaaFlags :
          data_byte = Place(<< >>, Layout.run, DaaProgram(a, f))
    /\ op_code = -1
    /\ calls = 0
    /\ DevicesInit

SpecDaa == InitDaa /\ [][NextMul]_vars

(***************************************************************************)
(* Programs with a 16-bit operand at the top of the address space          *)
(***************************************************************************)

\* The addresses of the 16-bit operands: a pair of RAM cells, and the last
\* cell of the address space.
WideAddresses == {768, 65535}

\* The programs loaded at Layout.run and run from reset, each followed by
\* NOP; BRA back to the NOP:
\*   1: LDX a        2: LDS a        3: LDS #$1234; STS a
WidePrograms ==
    {<< 190, GET_REG_HIGH(a), GET_REG_LOW(a) >> \o IdleLoop : a \in WideAddresses}
    \cup {<< 16, 254, GET_REG_HIGH(a), GET_REG_LOW(a) >> \o IdleLoop :
             a \in WideAddresses}
    \cup {<< 16, 206, 18, 52, 16, 255, GET_REG_HIGH(a), GET_REG_LOW(a) >>
             \o IdleLoop : a \in WideAddresses}

\* cpu_init(Layout.run) followed by main()'s cpu_reset(1), with one of
\* these programs loaded, the bytes 0x5A, 0xA5 in the cells 0x0000, 0x0001
\* and 0x11, 0x22 in the cells 0x0300, 0x0301.
InitWide ==
    /\ cpu = CpuInit
    /\ cc = set_cc(0)
    /\ \E program \in WidePrograms :
          data_byte = Place(Place(Place(<< >>, Layout.run, program),
                                  0, << 90, 165 >>),
                            768, << 17, 34 >>)
    /\ op_code = -1
    /\ calls = 0
    /\ DevicesInit

NextWide ==
    \/ cpu_reset
    \/ cpu_halt
    \/ cpu_run

SpecWide == InitWide /\ [][NextWide]_vars

(***************************************************************************)
(* The op-code searches of the 0x10 and 0x11 pages                         *)
(***************************************************************************)

\* Most searches in one run.
MaxSearchCalls == 2

\* cpu_run(), the for loop after a 0x10 prefix, for the second byte
\* op_code: the value op_code_index has when get_eff_addr() is called.
Search10 ==
    /\ calls < MaxSearchCalls
    /\ \E b \in 0..255 :
          ret' = [fn |-> "search", prefix |-> 16, op_code |-> b,
                  op_code_index |-> SearchOpCode(OP_CODE10, OP_CODE11, b)]
    /\ calls' = calls + 1
    /\ UNCHANGED <<cpu, cc, data_byte, op_code, memory_attr, pia, host, dev, uart>>

\* cpu_run(), the for loop after a 0x11 prefix.
Search11 ==
    /\ calls < MaxSearchCalls
    /\ \E b \in 0..255 :
          ret' = [fn |-> "search", prefix |-> 17, op_code |-> b,
                  op_code_index |-> SearchOpCode(OP_CODE11, TableSize, b)]
    /\ calls' = calls + 1
    /\ UNCHANGED <<cpu, cc, data_byte, op_code, memory_attr, pia, host, dev, uart>>

NextSearch ==
    \/ Search10
    \/ Search11

SpecSearch == InitCas /\ [][NextSearch]_vars

(***************************************************************************)
(* The mini-UART: the receive ISR and the readers of the circular buffer   *)
(***************************************************************************)

\* Most bytes the serial line delivers in one run, and the largest count
\* bcm2835_auxuart_rx_data() is called with.
MaxUartBytes == 3
MaxUartCount == 2

\* recv_buffer[k]
BufAt(u, k) == IF k \in DOMAIN u.recv_buffer THEN u.recv_buffer[k] ELSE 0

\* ptr++ followed by the wrap at SER_IN.
NextPtr(ptr) == IF ptr + 1 = SER_IN THEN 0 ELSE ptr + 1

\* bcm2835_auxuart_isr() with a byte ready: the whole handler, which the
\* reader cannot interrupt.  The n-th byte on the line is n.
bcm2835_auxuart_isr(u) ==
    IF u.recv_cnt < SER_IN
    THEN [u EXCEPT !.recv_buffer = (u.recv_wr_ptr :> (u.arrived + 1)) @@ @,
                   !.recv_cnt = @ + 1,
                   !.recv_wr_ptr = NextPtr(@),
                   !.arrived = @ + 1,
                   !.stored = Append(@, u.arrived + 1)]
    ELSE [u EXCEPT !.arrived = @ + 1]

\* The frame of every step of the UART.
UartOnly ==
    UNCHANGED <<cpu, cc, data_byte, op_code, calls, memory_attr, pia, ret,
                host, dev>>

\* The receive interrupt, taken between any two steps of the reader.
UartIsr ==
    /\ uart.arrived < MaxUartBytes
    /\ uart' = bcm2835_auxuart_isr(uart)
    /\ UartOnly

\* bcm2835_auxuart_rx_byte(): the test of recv_cnt.  A call that finds 0
\* returns at once.
UartRxByte ==
    /\ uart.pc = "idle" /\ uart.recv_cnt # 0
    /\ uart' = [uart EXCEPT !.pc = "byte_copy"]
    /\ UartOnly

\* bcm2835_auxuart_rx_data(buffer, count): the test of recv_cnt.
UartRxData ==
    /\ uart.pc = "idle" /\ uart.recv_cnt # 0
    /\ \E count \in 1..MaxUartCount :
          uart' = [uart EXCEPT !.pc = "data_compare", !.count = count]
    /\ UartOnly

\* rxCount = (count < recv_cnt) ? count : recv_cnt; the comparison reads
\* recv_cnt and the third operand reads it again.
UartCompare ==
    /\ uart.pc = "data_compare"
    /\ uart' = IF uart.count < uart.recv_cnt
               THEN [uart EXCEPT !.rxCount = uart.count, !.i = 0,
                                 !.pc = "data_copy"]
               ELSE [uart EXCEPT !.pc = "data_pick"]
    /\ UartOnly
UartPick ==
    /\ uart.pc = "data_pick"
    /\ uart' = [uart EXCEPT !.rxCount = uart.recv_cnt, !.i = 0,
                            !.pc = "data_copy"]
    /\ UartOnly

\* *byte = recv_buffer[recv_rd_ptr++] and the wrap of recv_rd_ptr.
UartCopy ==
    /\ uart.pc \in {"byte_copy", "data_copy"}
    /\ uart' = [uart EXCEPT !.got = Append(@, BufAt(uart, uart.recv_rd_ptr)),
                            !.recv_rd_ptr = NextPtr(@),
                            !.pc = IF uart.pc = "byte_copy" THEN "byte_load"
                                   ELSE "data_load"]
    /\ UartOnly

\* recv_cnt--, the load of recv_cnt into a register.
UartLoad ==
    /\ uart.pc \in {"byte_load", "data_load"}
    /\ uart' = [uart EXCEPT !.reg = uart.recv_cnt,
                            !.pc = IF uart.pc = "byte_load" THEN "byte_store"
                                   ELSE "data_store"]
    /\ UartOnly

\* recv_cnt--, the store of the register less one; then the return, or the
\* next round of the for loop.
UartStore ==
    /\ uart.pc \in {"byte_store", "data_store"}
    /\ uart' = [uart EXCEPT !.recv_cnt = uart.reg - 1,
                            !.i = IF uart.pc = "data_store" THEN @ + 1 ELSE @,
                            !.pc = IF uart.pc = "data_store"
                                      /\ uart.i + 1 < uart.rxCount
                                   THEN "data_copy" ELSE "idle"]
    /\ UartOnly

NextUart ==
    \/ UartIsr
    \/ UartRxByte
    \/ UartRxData
    \/ UartCompare
    \/ UartPick
    \/ UartCopy
    \/ UartLoad
    \/ UartStore

SpecUart == InitCas /\ [][NextUart]_vars

(***************************************************************************)
(* Vocabulary of the properties                                            *)
(***************************************************************************)

\* The step reaches the point where cpu_run() samples the interrupt inputs.
Sampling == cpu.reset_asserted = 0 /\ cpu.halt_asserted = 0

\* The request the priority rule NMI > FIRQ > IRQ selects at that point.
NmiDue == cpu.nmi_armed # 0 /\ cpu.nmi_latched # 0
FirqDue == ~NmiDue /\ cc.f = 0 /\ cpu.firq_asserted # 0
IrqDue == ~NmiDue /\ ~(cc.f = 0 /\ cpu.firq_asserted # 0)
          /\ cc.i = 0 /\ cpu.irq_asserted # 0
NoneDue == ~NmiDue /\ ~FirqDue /\ ~IrqDue

\* How many of the three requests are pending.
PendingCount ==
    (IF cpu.nmi_latched # 0 THEN 1 ELSE 0)
    + (IF cpu.firq_asserted # 0 THEN 1 ELSE 0)
    + (IF cpu.irq_asserted # 0 THEN 1 ELSE 0)

\* The op-code a fetch at address a decodes (the byte after a 0x10 prefix).
OpCodeAt(mem, a) ==
    IF DataAt(mem, a) = 16 THEN DataAt(mem, W16(a + 1)) ELSE DataAt(mem, a)

\* The twelve bytes from base upward are CC, A, B, DP, X, Y, U, PC of the
\* registers c with flags f, each 16-bit register high byte first.
FullFrameAt(mem, base, c, f) ==
    /\ DataAt(mem, base) = get_cc(f)
    /\ DataAt(mem, W16(base + 1)) = c.a
    /\ DataAt(mem, W16(base + 2)) = c.b
    /\ DataAt(mem, W16(base + 3)) = c.dp
    /\ DataAt(mem, W16(base + 4)) = GET_REG_HIGH(c.x)
    /\ DataAt(mem, W16(base + 5)) = GET_REG_LOW(c.x)
    /\ DataAt(mem, W16(base + 6)) = GET_REG_HIGH(c.y)
    /\ DataAt(mem, W16(base + 7)) = GET_REG_LOW(c.y)
    /\ DataAt(mem, W16(base + 8)) = GET_REG_HIGH(c.u)
    /\ DataAt(mem, W16(base + 9)) = GET_REG_LOW(c.u)
    /\ DataAt(mem, W16(base + 10)) = GET_REG_HIGH(c.pc)
    /\ DataAt(mem, W16(base + 11)) = GET_REG_LOW(c.pc)

\* The three bytes from base upward are CC, PC high, PC low.
ShortFrameAt(mem, base, c, f) ==
    /\ DataAt(mem, base) = get_cc(f)
    /\ DataAt(mem, W16(base + 1)) = GET_REG_HIGH(c.pc)
    /\ DataAt(mem, W16(base + 2)) = GET_REG_LOW(c.pc)

\* The stack cells base..base+n-1 are RAM.
InRam(base, n) == \A k \in 0..(n - 1) : memory_type(W16(base + k)) = MEM_TYPE_RAM

\* The registers an interrupt frame saves, and S.
SameRegisters(c, d) ==
    /\ c.a = d.a /\ c.b = d.b /\ c.dp = d.dp /\ c.x = d.x /\ c.y = d.y
    /\ c.u = d.u /\ c.s = d.s /\ c.pc = d.pc

\* This step entered the handler at vector target h with a frame of n
\* bytes and then ran the handler's first instruction, a NOP or an RTI.
\* After a NOP the CPU is one byte into the handler with the frame on top
\* of the stack; after an RTI it is back where it was interrupted.
EnteredHandler(h, n) ==
    /\ op_code' = DataAt(data_byte, h)
    /\ op_code' = 18 => cpu'.pc = h + 1 /\ cpu'.s = W16(cpu.s - n)
    /\ op_code' = 59 => cpu'.pc = cpu.pc /\ cpu'.s = cpu.s

\* This step serviced the NMI, the FIRQ, the IRQ.
TookNmi ==
    /\ FullFrameAt(data_byte', W16(cpu.s - 12), cpu, [cc EXCEPT !.e = 1])
    /\ EnteredHandler(Layout.nmi, 12)
    /\ cpu'.nmi_latched = 0
TookFirq ==
    /\ ShortFrameAt(data_byte', W16(cpu.s - 3), cpu, [cc EXCEPT !.e = 0])
    /\ EnteredHandler(Layout.firq, 3)
TookIrq ==
    /\ FullFrameAt(data_byte', W16(cpu.s - 12), cpu, [cc EXCEPT !.e = 1])
    /\ EnteredHandler(Layout.irq, 12)

\* The address a vector holds, as a read through the SAM redirect returns
\* it: the two ROM bytes 0x4000 below the vector.
VectorTarget(vec) ==
    DataAt(data_byte, vec - 16384) * 256 + DataAt(data_byte, vec - 16383)

\* The handler of the request that is due.
DueHandler ==
    IF NmiDue THEN VectorTarget(VEC_NMI)
    ELSE IF FirqDue THEN VectorTarget(VEC_FIRQ)
    ELSE VectorTarget(VEC_IRQ)

\* This step entered no handler: it fetched nothing, or the op-code at PC.
TookNone ==
    \/ op_code' = -1
    \/ op_code' = OpCodeAt(data_byte, cpu.pc)

(***************************************************************************)
(* C1: every cpu_run() taken while the reset latch is set returns          *)
(* CPU_RESET with F = 1, I = 1, DP = 0, nmi_armed = 0 and PC equal to the  *)
(* vector read at 0xfffe/0xffff, and fetches and executes nothing: A, B,   *)
(* X, Y, U, S and every memory cell outside the two vector cells keep      *)
(* their values.                                                           *)
(***************************************************************************)
C1_ResetStep ==
    [][ (cpu_run /\ cpu.reset_asserted # 0) =>
          /\ cpu'.cpu_state = CPU_RESET
          /\ cc'.f = 1 /\ cc'.i = 1
          /\ cpu'.dp = 0
          /\ cpu'.nmi_armed = 0
          /\ cpu'.pc = DataAt(data_byte', VEC_RESET) * 256
                       + DataAt(data_byte', VEC_RESET + 1)
          /\ cpu'.pc = InitialByte(49150) * 256 + InitialByte(49151)
          /\ op_code' = -1
          /\ cpu'.a = cpu.a /\ cpu'.b = cpu.b /\ cpu'.x = cpu.x
          /\ cpu'.y = cpu.y /\ cpu'.u = cpu.u /\ cpu'.s = cpu.s
          /\ \A a \in (DOMAIN data_byte \cup DOMAIN data_byte')
                       \ {VEC_RESET, VEC_RESET + 1} :
                DataAt(data_byte', a) = DataAt(data_byte, a)
      ]_vars

\* The CPU is held in reset after the program had loaded its registers and
\* armed the NMI.
C1_Witness ==
    /\ cpu.cpu_state = CPU_RESET /\ cpu.reset_asserted = 1
    /\ cpu.s = StackTop /\ cpu.a = 161 /\ cpu.nmi_armed = 0
    /\ cpu.pc = Layout.run /\ cc.f = 1 /\ cc.i = 1 /\ cpu.dp = 0

(***************************************************************************)
(* C2: when more than one of NMI, FIRQ and IRQ is pending at a step's      *)
(* sampling point, the step services exactly one of them: the NMI if       *)
(* nmi_armed, otherwise the FIRQ if F = 0, otherwise the IRQ if I = 0,     *)
(* and none when none of these holds.  The service is observed through    *)
(* the frame it leaves on a stack in RAM and the handler it enters.        *)
(***************************************************************************)
C2_Priority ==
    [][ (cpu_run /\ Sampling /\ PendingCount >= 2
         /\ InRam(W16(cpu.s - 12), 12)) =>
          /\ NmiDue => TookNmi
          /\ FirqDue => TookFirq
          /\ IrqDue => TookIrq
          /\ NoneDue => TookNone
      ]_vars

\* One byte into the NMI handler with FIRQ and IRQ still asserted and the
\* stacked CC showing both were unmasked when the NMI was taken.
C2_Witness ==
    /\ cpu.pc = Layout.nmi + 1 /\ op_code = 18
    /\ cpu.firq_asserted = 1 /\ cpu.irq_asserted = 1
    /\ cpu.s = StackTop - 12
    /\ Bit(DataAt(data_byte, cpu.s), 6) = 0
    /\ Bit(DataAt(data_byte, cpu.s), 4) = 0

\* The situation of scenario S5: I clear, S = 0x7FFF, PC = 0x1234, the IRQ
\* asserted and nothing of higher priority due.
S5Start ==
    /\ Sampling /\ IrqDue
    /\ cpu.s = 32767 /\ cpu.pc = 4660

\* C3 as the scenario states it: the step leaves S = 0x7FF4 with the frame
\* at S..S+11, I set and PC equal to the IRQ vector.
C3_S5AsStated ==
    [][ (cpu_run /\ S5Start) =>
          /\ cpu'.s = 32756
          /\ FullFrameAt(data_byte', cpu'.s, cpu, [cc EXCEPT !.e = 1])
          /\ cc'.i = 1
          /\ cpu'.pc = VectorTarget(VEC_IRQ)
      ]_vars

(***************************************************************************)
(* C3: with I clear, S = 0x7FFF, PC = 0x1234 and the IRQ asserted, one     *)
(* cpu_run() pushes twelve bytes, the frame CC (with E set), A, B, DP, X,  *)
(* Y, U, PC at 0x7FF3..0x7FFE with PC = 0x12, 0x34 in its last two bytes,  *)
(* loads PC from the IRQ vector and executes the first instruction of the  *)
(* handler in the same step: after a NOP there S = 0x7FF3, I = 1 and PC is *)
(* the vector target plus one; after an RTI there S = 0x7FFF and PC =      *)
(* 0x1234 again.                                                           *)
(***************************************************************************)
C3_S5 ==
    [][ (cpu_run /\ S5Start) =>
          /\ FullFrameAt(data_byte', 32755, cpu, [cc EXCEPT !.e = 1])
          /\ DataAt(data_byte', 32765) = 18 /\ DataAt(data_byte', 32766) = 52
          /\ Bit(DataAt(data_byte', 32755), 7) = 1
          /\ op_code' = DataAt(data_byte, VectorTarget(VEC_IRQ))
          /\ op_code' = 18 =>
                /\ cpu'.s = 32755
                /\ cc'.i = 1 /\ cc'.e = 1 /\ cc'.f = cc.f
                /\ cpu'.pc = VectorTarget(VEC_IRQ) + 1
          /\ op_code' = 59 =>
                /\ cpu'.s = 32767
                /\ cpu'.pc = 4660
      ]_vars

\* One byte into the IRQ handler with the S5 frame on the stack.
C3_Witness ==
    /\ cpu.s = 32755 /\ op_code = 18
    /\ cpu.pc = VectorTarget(VEC_IRQ) + 1
    /\ cc.i = 1
    /\ DataAt(data_byte, 32765) = 18 /\ DataAt(data_byte, 32766) = 52
    /\ DataAt(data_byte, 32756) = 161 /\ DataAt(data_byte, 32757) = 178

\* The step services an interrupt whose handler starts with an RTI, with
\* the whole frame in RAM.
EntryThenRti ==
    /\ Sampling /\ ~NoneDue
    /\ DataAt(data_byte, DueHandler) = 59
    /\ InRam(W16(cpu.s - 12), 12)

\* C4 as stated: entry followed by RTI restores every register and every
\* flag.
C4_RoundTripAsStated ==
    [][ (cpu_run /\ EntryThenRti) => (SameRegisters(cpu', cpu) /\ cc' = cc) ]_vars

(***************************************************************************)
(* C4: an interrupt entry whose frame lies in RAM, followed by RTI with no *)
(* stack access in between, restores A, B, DP, X, Y, U, S, PC and every    *)
(* flag except E, which is left as the entry set it: 1 after an NMI or     *)
(* IRQ, 0 after a FIRQ.                                                    *)
(***************************************************************************)
C4_RoundTrip ==
    [][ (cpu_run /\ EntryThenRti) =>
          /\ SameRegisters(cpu', cpu)
          /\ cc' = [cc EXCEPT !.e = IF FirqDue THEN 0 ELSE 1]
          /\ op_code' = 59
      ]_vars

\* Back in the main program after an entry and its RTI: the registers equal
\* the frame left below the stack top, and E has been set by the entry.
C4_Witness ==
    /\ op_code = 59 /\ cpu.s = StackTop /\ cpu.pc = BodyAddress
    /\ cpu.a = 161 /\ cpu.b = 178 /\ cc.e = 1 /\ cc.i = 0
    /\ FullFrameAt(data_byte, StackTop - 12, cpu, cc)

\* No interrupt line is asserted and no NMI is latched.
NoLine ==
    cpu.nmi_latched = 0 /\ cpu.firq_asserted = 0 /\ cpu.irq_asserted = 0

\* No byte was ever pushed on the stack the programs set up.
StackUntouched ==
    \A a \in DOMAIN data_byte : a < StackTop - 256 \/ a >= StackTop

\* The CPU stopped right after a SYNC instruction with all three interrupts
\* enabled and no frame ever pushed: it is in the SYNC wait or was halted
\* out of it, and no step can have sampled an asserted line since the SYNC,
\* because that step would have pushed a frame.
StoppedAfterSync ==
    /\ cpu.cpu_state \in {CPU_SYNC, CPU_HALTED}
    /\ DataAt(data_byte, W16(cpu.pc - 1)) = 19
    /\ cpu.s = StackTop /\ StackUntouched
    /\ cpu.nmi_armed = 1 /\ cc.f = 0 /\ cc.i = 0

(***************************************************************************)
(* C5: once SYNC has stopped the CPU, no step fetches an instruction until *)
(* a step samples an asserted interrupt line, reset excepted; the halt     *)
(* latch asserted and released during the wait does not end it.  So a step *)
(* with halt released, no reset and no line asserted fetches nothing.      *)
(***************************************************************************)
C5_SyncWaitsForInterrupt ==
    [][ (cpu_run /\ Sampling /\ NoLine /\ StoppedAfterSync) =>
          (op_code' = -1 /\ cpu'.pc = cpu.pc)
      ]_vars

\* An IRQ or FIRQ is asserted but masked, and nothing is due.
MaskedLine ==
    /\ NoneDue
    /\ \/ cpu.irq_asserted # 0 /\ cc.i = 1
       \/ cpu.firq_asserted # 0 /\ cc.f = 1

(***************************************************************************)
(* C6: in the SYNC wait, a step that samples an asserted but masked IRQ or *)
(* FIRQ leaves the wait and executes the instruction that follows the      *)
(* SYNC, pushing no frame and taking no vector.                            *)
(***************************************************************************)
C6_MaskedInterruptEndsSync ==
    [][ (cpu_run /\ Sampling /\ cpu.cpu_state = CPU_SYNC
         /\ DataAt(data_byte, W16(cpu.pc - 1)) = 19 /\ MaskedLine) =>
          /\ cpu'.cpu_state = CPU_EXEC
          /\ op_code' = OpCodeAt(data_byte, cpu.pc)
          /\ cpu'.s = cpu.s
          /\ data_byte' = data_byte
      ]_vars

\* The CPU waits in the state CWAI left: the op-code before PC is CWAI
\* (cpu_run() does not step PC over the operand of CWAI).
InCwaiWait ==
    cpu.cpu_state = CPU_SYNC /\ DataAt(data_byte, W16(cpu.pc - 1)) = 60

(***************************************************************************)
(* C7: CWAI pushes the twelve-byte frame once; the interrupt that ends the *)
(* wait pushes nothing more, so S at the first instruction of the handler  *)
(* equals S right after CWAI, and a single RTI unstacks the frame CWAI     *)
(* pushed.                                                                 *)
(***************************************************************************)
C7_CwaiPushesOnce ==
    [][ (cpu_run /\ Sampling /\ InCwaiWait /\ ~NoneDue
         /\ InRam(W16(cpu.s - 12), 24)) =>
          /\ op_code' = DataAt(data_byte, DueHandler)
          /\ op_code' = 18 => (cpu'.s = cpu.s /\ cpu'.pc = DueHandler + 1)
          /\ op_code' = 59 => cpu'.s = W16(cpu.s + 12)
      ]_vars

\* C8 as stated: a latched NMI stays latched until a step services it, and
\* an IRQ or FIRQ asserted at a sampling point is serviced at that step
\* unless it is masked or a request of higher priority is taken.
C8_NoInterruptLostAsStated ==
    [][ /\ cpu.nmi_latched # 0 =>
              \/ cpu'.nmi_latched # 0
              \/ cpu_run /\ Sampling /\ NmiDue /\ TookNmi
        /\ (cpu_run /\ Sampling /\ InRam(W16(cpu.s - 12), 12)) =>
              /\ cpu.firq_asserted # 0 => (TookFirq \/ cc.f = 1 \/ NmiDue)
              /\ cpu.irq_asserted # 0 => (TookIrq \/ cc.i = 1 \/ NmiDue \/ FirqDue)
      ]_vars

(***************************************************************************)
(* C8: a latched NMI stays latched until a step services it or a step      *)
(* taken with the reset latch set clears it; an IRQ or FIRQ asserted when  *)
(* a step samples the lines (neither reset nor halt latched) is serviced   *)
(* at that step unless it is masked or a request of higher priority is     *)
(* taken, and the setter's level stays as set until the setter changes it. *)
(***************************************************************************)
C8_NoInterruptLost ==
    [][ /\ cpu.nmi_latched # 0 =>
              \/ cpu'.nmi_latched # 0
              \/ cpu_run /\ Sampling /\ NmiDue /\ TookNmi
              \/ cpu_run /\ cpu.reset_asserted # 0
        /\ (cpu_run /\ Sampling /\ InRam(W16(cpu.s - 12), 12)) =>
              /\ cpu.firq_asserted # 0 => (TookFirq \/ cc.f = 1 \/ NmiDue)
              /\ cpu.irq_asserted # 0 => (TookIrq \/ cc.i = 1 \/ NmiDue \/ FirqDue)
        /\ cpu_run =>
              /\ cpu'.firq_asserted = cpu.firq_asserted
              /\ cpu'.irq_asserted = cpu.irq_asserted
      ]_vars

\* One byte into the FIRQ handler, entered while an IRQ was unmasked and
\* asserted: the IRQ is still asserted and waits for its turn.
C8_Witness ==
    /\ cpu.pc = VectorTarget(VEC_FIRQ) + 1 /\ op_code = 18
    /\ cpu.s = StackTop - 3 /\ cc.f = 1 /\ cc.i = 1
    /\ Bit(DataAt(data_byte, cpu.s), 4) = 0
    /\ cpu.irq_asserted = 1 /\ cpu.firq_asserted = 1

(***************************************************************************)
(* C9: a step that decodes an illegal op-code returns CPU_EXCEPTION, and   *)
(* from then on every step executes nothing and keeps CPU_EXCEPTION until  *)
(* a reset.                                                                *)
(***************************************************************************)
C9_ExceptionIsFinal ==
    [][ /\ (cpu_run /\ Sampling /\ NoneDue /\ cpu.cpu_state = CPU_EXEC
             /\ ModeOf(DataAt(data_byte, cpu.pc)) = ILLEGAL_OP) =>
              cpu'.cpu_state = CPU_EXCEPTION
        /\ (cpu_run /\ Sampling /\ cpu.cpu_state = CPU_EXCEPTION) =>
              /\ cpu'.cpu_state = CPU_EXCEPTION
              /\ op_code' = -1
              /\ SameRegisters(cpu', cpu)
              /\ data_byte' = data_byte
      ]_vars

\* ROM addresses the programs write to, and the ends of the ROM.
RomProbes == {DRAGON_ROM_START, 45584, 49150, DRAGON_ROM_END}

(***************************************************************************)
(* C10: no cell marked ROM ever changes: every ROM cell holds the byte it  *)
(* was loaded with, and a mem_write() to a ROM cell returns MEM_ROM and    *)
(* leaves the memory as it was.                                            *)
(***************************************************************************)
C10_RomNeverChanges ==
    /\ \A a \in DOMAIN data_byte : memory_type(a) # MEM_TYPE_ROM
    /\ \A a \in RomProbes :
          /\ memory_type(a) = MEM_TYPE_ROM
          /\ DataAt(data_byte, a) = InitialByte(a)
          /\ mem_write_result(a) = MEM_ROM
          /\ mem_write(Machine, a, 255).mem = data_byte

\* STA $8000 has been executed with A = 0xA1 and the cell still holds 0.
C10_Witness ==
    /\ op_code = 183 /\ cpu.pc = BodyAddress + 5 /\ cpu.a = 161
    /\ DataAt(data_byte, DRAGON_ROM_START) = 0

(***************************************************************************)
(* Vocabulary of the memory properties                                     *)
(***************************************************************************)

\* This step is a call of the memory interface.
MemCall(fn) == calls' = calls + 1 /\ ret'.fn = fn

\* The cell a is an IO cell with a handler hooked, before the step.
Hooked(a) ==
    /\ a \in 0..(MEMORY - 1)
    /\ memory_type(a) = MEM_TYPE_IO
    /\ io_handler(a) # "do_nothing_io_handler"

\* The entries of the call-back list io made for the cell a.
CallsFor(io, a) == SelectSeq(io, LAMBDA e : e.address = a)

\* The byte each modelled handler returns for a read of the cell a, from
\* the state before the step.
HandlerAnswer(a) ==
    IF io_handler(a) = "io_handler_pia0_crb" THEN pia.pia0_crb
    ELSE DataAt(data_byte, BitAnd(a, 49151))

\* The handler mem_read() and mem_write() dispatch for the cell a under the
\* attribute map attr, "none" when they dispatch none.
Dispatched(attr, a) ==
    IF TypeIn(attr, a) = MEM_TYPE_IO
       /\ HandlerIn(attr, a) # "do_nothing_io_handler"
    THEN HandlerIn(attr, a)
    ELSE "none"

(***************************************************************************)
(* C11: a mem_read() or mem_write() of an IO cell with a handler hooked    *)
(* calls that handler exactly once.  The read passes the address, the      *)
(* cell's byte and MEM_READ, stores the byte the handler returns in the    *)
(* cell and returns it.  The write stores the byte in the cell and then    *)
(* passes the address, the byte and MEM_WRITE, so the handler finds the    *)
(* cell already written.  A cell that is not IO, or has no handler hooked, *)
(* is read and written with no call-back.                                  *)
(***************************************************************************)
C11_IoCallback ==
    [][ /\ (MemCall("mem_read") /\ Hooked(ret'.address)) =>
              /\ CallsFor(ret'.io, ret'.address) =
                    << [handler |-> io_handler(ret'.address),
                        address |-> ret'.address,
                        data |-> DataAt(data_byte, ret'.address),
                        op |-> "MEM_READ",
                        cell |-> DataAt(data_byte, ret'.address)] >>
              /\ ret'.value = HandlerAnswer(ret'.address)
              /\ DataAt(data_byte', ret'.address) = ret'.value
        /\ (MemCall("mem_write") /\ Hooked(ret'.address)) =>
              /\ CallsFor(ret'.io, ret'.address) =
                    << [handler |-> io_handler(ret'.address),
                        address |-> ret'.address,
                        data |-> ret'.data,
                        op |-> "MEM_WRITE",
                        cell |-> ret'.data] >>
              /\ DataAt(data_byte', ret'.address) = ret'.data
              /\ ret'.value = MEM_OK
        /\ ((MemCall("mem_read") \/ MemCall("mem_write"))
            /\ ~Hooked(ret'.address)) =>
              ret'.io = << >>
      ]_vars

\* The read of 0x4300, defined IO with the redirect handler, called the
\* handler once with the cell's 0x5A, returned the 0x11 of cell 0x0300 and
\* left it in the cell.
C11_Witness ==
    /\ ret.fn = "mem_read" /\ ret.address = 17152
    /\ ret.io = << [handler |-> "io_handler_vector_redirect", address |-> 17152,
                    data |-> 90, op |-> "MEM_READ", cell |-> 90] >>
    /\ ret.value = 17
    /\ DataAt(data_byte, 17152) = 17

(***************************************************************************)
(* C12: after mem_define_rom() or mem_define_io() each cell's data byte is *)
(* unchanged, the cells of the span have the attribute of the call, and    *)
(* the handler dispatched on an access of them is the one passed to the    *)
(* call: none after mem_define_rom() and after mem_define_io() given the   *)
(* null pointer.  Cells outside the span keep attribute and handler.       *)
(***************************************************************************)
C12_LastDefineWins ==
    [][ /\ (MemCall("mem_define_rom") /\ ret'.value = MEM_OK) =>
              /\ data_byte' = data_byte
              /\ \A a \in ret'.addr_start..ret'.addr_end :
                    /\ TypeIn(memory_attr', a) = MEM_TYPE_ROM
                    /\ Dispatched(memory_attr', a) = "none"
              /\ \A a \in MemAddresses \ (ret'.addr_start..ret'.addr_end) :
                    /\ TypeIn(memory_attr', a) = memory_type(a)
                    /\ Dispatched(memory_attr', a) = Dispatched(memory_attr, a)
        /\ (MemCall("mem_define_io") /\ ret'.value = MEM_OK) =>
              /\ data_byte' = data_byte
              /\ \A a \in ret'.addr_start..ret'.addr_end :
                    /\ TypeIn(memory_attr', a) = MEM_TYPE_IO
                    /\ Dispatched(memory_attr', a) =
                          IF ret'.io_handler = "0L" THEN "none"
                          ELSE ret'.io_handler
              /\ \A a \in MemAddresses \ (ret'.addr_start..ret'.addr_end) :
                    /\ TypeIn(memory_attr', a) = memory_type(a)
                    /\ Dispatched(memory_attr', a) = Dispatched(memory_attr, a)
      ]_vars

OnlyFrameWritten(base, n) ==
    \A a \in DOMAIN data_byte \cup DOMAIN data_byte' :
        (memory_type(a) = MEM_TYPE_RAM /\ \A k \in 0..(n - 1) : a # W16(base + k)) =>
            DataAt(data_byte', a) = DataAt(data_byte, a)

(***************************************************************************)
(* C14: a step that enters an interrupt leaves the frame of the            *)
(* interrupted program on the S stack and starts the handler the vector    *)
(* names.  For the NMI and the IRQ the frame is twelve bytes, from the     *)
(* new S upward CC with E = 1, A, B, DP, X, Y, U, PC, each 16-bit          *)
(* register high byte first; for the FIRQ it is three bytes, CC with       *)
(* E = 0, PC high, PC low.  The stacked PC is the one of the interrupted   *)
(* program, no other RAM cell is written, and the flags the handler       *)
(* starts with carry the same E.                                           *)
(***************************************************************************)
C14_EntryFrames ==
    [][ (cpu_run /\ Sampling /\ ~NoneDue /\ InRam(W16(cpu.s - 12), 12)) =>
          /\ op_code' = DataAt(data_byte, DueHandler)
          /\ (NmiDue \/ IrqDue) =>
                /\ FullFrameAt(data_byte', W16(cpu.s - 12), cpu,
                               [cc EXCEPT !.e = 1])
                /\ OnlyFrameWritten(W16(cpu.s - 12), 12)
                /\ op_code' = 18 => cpu'.s = W16(cpu.s - 12) /\ cc'.e = 1
          /\ FirqDue =>
                /\ ShortFrameAt(data_byte', W16(cpu.s - 3), cpu,
                                [cc EXCEPT !.e = 0])
                /\ OnlyFrameWritten(W16(cpu.s - 3), 3)
                /\ op_code' = 18 => cpu'.s = W16(cpu.s - 3) /\ cc'.e = 0
      ]_vars

\* One byte into the IRQ handler, entered from the first body's NOP with
\* the twelve-byte frame of the programmed registers on the stack and the
\* return address inside the body.
C14_Witness ==
    /\ cpu.pc = VectorTarget(VEC_IRQ) + 1 /\ op_code = 18
    /\ cpu.s = StackTop - 12 /\ cc.e = 1 /\ cc.i = 1
    /\ Bit(DataAt(data_byte, cpu.s), 7) = 1
    /\ DataAt(data_byte, cpu.s + 1) = 161
    /\ DataAt(data_byte, cpu.s + 4) = 19 /\ DataAt(data_byte, cpu.s + 5) = 87
    /\ DataAt(data_byte, cpu.s + 10) * 256 + DataAt(data_byte, cpu.s + 11)
           \in BodyAddress..(BodyAddress + 8)

\* The step fetches and executes the instruction at PC.
Executes == Sampling /\ NoneDue /\ cpu.cpu_state # CPU_SYNC

\* The instruction at address a is one that writes S: LDS, LEAS, TFR or EXG
\* with S as a destination, PULU with S in its pull list.
WritesS(mem, a) ==
    LET op == DataAt(mem, a)
        post == DataAt(mem, W16(a + 1))
    IN \/ op = 16 /\ post \in {206, 222, 238, 254}
       \/ op = 50
       \/ op = 31 /\ post % 16 = 4
       \/ op = 30 /\ (post % 16 = 4 \/ post \div 16 = 4)
       \/ op = 55 /\ Bit(post, 6) = 1

(***************************************************************************)
(* C15: nmi_armed is clear from reset until the first instruction that     *)
(* writes S, every instruction that writes S (LDS, LEAS, TFR or EXG with   *)
(* S as destination, PULU with S in its list) sets it, and while it is     *)
(* clear a latched NMI is not serviced and stays latched.                  *)
(***************************************************************************)
C15_ArmedByWritingS ==
    [][ /\ (cpu_run /\ cpu.reset_asserted # 0) => cpu'.nmi_armed = 0
        /\ (cpu_run /\ Executes /\ WritesS(data_byte, cpu.pc)) =>
              cpu'.nmi_armed = 1
        /\ (cpu_run /\ Executes /\ ~WritesS(data_byte, cpu.pc)) =>
              cpu'.nmi_armed = cpu.nmi_armed
        /\ (cpu_run /\ Sampling /\ cpu.nmi_armed = 0 /\ cpu.nmi_latched # 0) =>
              /\ cpu'.nmi_latched # 0
              /\ op_code' # -1 => cpu'.pc # VectorTarget(VEC_NMI) + 1
      ]_vars

\* The software interrupt at address a: 1 for SWI, 2 for SWI2, 3 for SWI3,
\* 0 for any other instruction.
SwiAt(mem, a) ==
    CASE DataAt(mem, a) = 63 -> 1
      [] DataAt(mem, a) = 16 /\ DataAt(mem, W16(a + 1)) = 63 -> 2
      [] DataAt(mem, a) = 17 /\ DataAt(mem, W16(a + 1)) = 63 -> 3
      [] OTHER -> 0

\* The vector and the length of each software interrupt.
SwiVec(k) == CASE k = 1 -> VEC_SWI [] k = 2 -> VEC_SWI2 [] OTHER -> VEC_SWI3
SwiLen(k) == IF k = 1 THEN 1 ELSE 2

(***************************************************************************)
(* C16: SWI (0x3F), SWI2 (0x10 0x3F) and SWI3 (0x11 0x3F) each push the    *)
(* full twelve-byte frame with E = 1 and the address of the next           *)
(* instruction as the stacked PC, and load PC from their vector: 0xFFFA    *)
(* for SWI, which also sets F and I; 0xFFF4 for SWI2 and 0xFFF2 for SWI3,  *)
(* which leave F and I as they were.                                       *)
(***************************************************************************)
C16_SoftwareInterrupts ==
    [][ (cpu_run /\ Executes /\ SwiAt(data_byte, cpu.pc) # 0
         /\ InRam(W16(cpu.s - 12), 12)) =>
          /\ FullFrameAt(data_byte', W16(cpu.s - 12),
                         [cpu EXCEPT !.pc = W16(@ + SwiLen(SwiAt(data_byte, cpu.pc)))],
                         [cc EXCEPT !.e = 1])
          /\ cpu'.s = W16(cpu.s - 12)
          /\ cc'.e = 1
          /\ cpu'.pc = VectorTarget(SwiVec(SwiAt(data_byte, cpu.pc)))
          /\ SwiAt(data_byte, cpu.pc) = 1 => cc'.f = 1 /\ cc'.i = 1
          /\ SwiAt(data_byte, cpu.pc) # 1 => cc'.f = cc.f /\ cc'.i = cc.i
      ]_vars

\* This step is the call fn of the memory interface at address a.
MemStep(fn, a) == calls' = calls + 1 /\ ret'.fn = fn /\ ret'.address = a

\* This step is a call of pia_vsync_irq(), of pia_function_key().
VsyncStep == calls' = calls + 1 /\ ret'.fn = "pia_vsync_irq"
FunctionKeyStep == calls' = calls + 1 /\ ret'.fn = "pia_function_key"

\* The field-sync status flag, bit 7 of CRB, in the PIA statics p.
IrqFlag(p) == Bit(p.pia0_crb, 7)

(***************************************************************************)
(* C17: field sync is enabled exactly when the last CRB write had bit 0    *)
(* set.  A field-sync tick sets CRB bit 7 and asserts the IRQ line when    *)
(* field sync is enabled and changes nothing when it is not.  Once flag    *)
(* and line are set they stay set over every step other than a read of     *)
(* PIA0-PB, and a read of PIA0-PB clears the flag and drops the line.      *)
(***************************************************************************)
C17_FieldSyncIrq ==
    [][ /\ IF MemStep("mem_write", PIA0_CRB)
           THEN pia'.pia0_cb1_int_enabled = Bit(ret'.data, 0)
           ELSE pia'.pia0_cb1_int_enabled = pia.pia0_cb1_int_enabled
        /\ VsyncStep =>
              IF pia.pia0_cb1_int_enabled # 0
              THEN IrqFlag(pia') = 1 /\ cpu'.irq_asserted = 1
              ELSE pia' = pia /\ cpu' = cpu
        /\ (IrqFlag(pia) = 1 /\ cpu.irq_asserted = 1
             /\ ~MemStep("mem_read", PIA0_PB)) =>
              IrqFlag(pia') = 1 /\ cpu'.irq_asserted = 1
        /\ MemStep("mem_read", PIA0_PB) =>
              IrqFlag(pia') = 0 /\ cpu'.irq_asserted = 0
      ]_vars

\* Every row bitmap with no key down, and the bitmaps after the make of
\* scan code k from there: the columns of the table row in its matrix row,
\* nothing for a function key or a code without a matrix position.
AllUp == << 255, 255, 255, 255, 255, 255, 255 >>
AfterMake(k) ==
    IF k \in FunctionCodes \/ scan_code_table[k + 1][2] = 255 THEN AllUp
    ELSE [AllUp EXCEPT ![scan_code_table[k + 1][2] + 1] = scan_code_table[k + 1][1]]

(***************************************************************************)
(* C18: for every scan code K of the table, a make of K delivered on a     *)
(* PIA0-PB write while all seven row bitmaps are 0xFF, followed by a       *)
(* break of K delivered on a PIA0-PB write, leaves all seven row bitmaps   *)
(* at 0xFF.                                                                *)
(***************************************************************************)
C18_MakeBreakRoundTrip ==
    [][ MemStep("mem_write", PIA0_PB) =>
          \A k \in KeyCodes :
             /\ (ret'.inp.scan_code = k /\ pia.keyboard_rows = AllUp) =>
                   pia'.keyboard_rows = AfterMake(k)
             /\ (ret'.inp.scan_code = k + 128 /\ pia.keyboard_rows = AfterMake(k)) =>
                   pia'.keyboard_rows = AllUp
      ]_vars

\* Q was pressed on the first PB write and released on the second, and
\* every row bitmap is 0xFF again.
C18_Witness ==
    /\ calls = 2 /\ ret.fn = "mem_write" /\ ret.address = PIA0_PB
    /\ ret.inp.scan_code = 16 + 128
    /\ host.scan_codes = << >>
    /\ pia.keyboard_rows = AllUp /\ ~pia.halted

(***************************************************************************)
(* C19: after a PIA0-PB write of v, bit r (r = 0..6) of the byte stored    *)
(* in PIA0-PA is 1 exactly when (~v & row_bits[r]) = ~v, and bit 7 is the  *)
(* comparator level.  A PIA0-PA read with the fire button released         *)
(* returns bits 0..6 as stored and the comparator level in bit 7; after a  *)
(* make of scan code 16 (Q) and a PB write of 0xFD it returns bit 4 clear  *)
(* and bits 0..3, 5 and 6 set.                                             *)
(***************************************************************************)
C19_RowScan ==
    [][ /\ (MemStep("mem_write", PIA0_PB) /\ ~pia'.halted) =>
              /\ \A r \in 0..(KBD_ROWS - 1) :
                    (Bit(DataAt(data_byte', PIA0_PA), r) = 1)
                    <=> (BitAnd(255 - ret'.data, pia'.keyboard_rows[r + 1])
                         = 255 - ret'.data)
              /\ Bit(DataAt(data_byte', PIA0_PA), 7) = ret'.inp.joystk_comp
        /\ (MemStep("mem_read", PIA0_PA) /\ ret'.inp.rjoystk_button # 0) =>
              /\ \A r \in 0..(KBD_ROWS - 1) :
                    Bit(ret'.value, r) = Bit(DataAt(data_byte, PIA0_PA), r)
              /\ Bit(ret'.value, 7) = ret'.inp.joystk_comp
        /\ (MemStep("mem_read", PIA0_PA) /\ ret'.inp.rjoystk_button # 0
             /\ ret.fn = "mem_write" /\ ret.address = PIA0_PB /\ ret.data = 253
             /\ pia.keyboard_rows = AfterMake(16)) =>
              ret'.value = 111 + 128 * ret'.inp.joystk_comp
      ]_vars

\* Q was pressed on a first PB write, 0xFD was written to PB, and the PA
\* read with the button released and the comparator high returned 0xEF.
C19_Witness ==
    /\ calls = 3 /\ ret.fn = "mem_read" /\ ret.address = PIA0_PA
    /\ ret.inp.rjoystk_button = 1 /\ ret.inp.joystk_comp = 1
    /\ ret.value = 239
    /\ pia.keyboard_rows = AfterMake(16)
    /\ host.scan_codes = << >>

(***************************************************************************)
(* C20 as stated: a make code of function key Fn (scan code 58 + n) seen   *)
(* on a PIA0-PB write changes no row bitmap and is latched; a              *)
(* pia_function_key() call returns the latch and clears it, so the call    *)
(* after it returns 0.                                                     *)
(***************************************************************************)
C20_FunctionKeyLatchAsStated ==
    [][ /\ (MemStep("mem_write", PIA0_PB) /\ ret'.inp.scan_code \in FunctionCodes) =>
              /\ pia'.keyboard_rows = pia.keyboard_rows
              /\ pia'.function_key = ret'.inp.scan_code - SCAN_CODE_F1
        /\ FunctionKeyStep =>
              /\ ret'.value = pia.function_key
              /\ pia'.function_key = 0
        /\ (FunctionKeyStep /\ ret.fn = "pia_function_key") => ret'.value = 0
      ]_vars

(***************************************************************************)
(* C20: a make code of function key Fn (scan code 58 + n) seen on a        *)
(* PIA0-PB write changes no row bitmap; it is latched when no function     *)
(* key is latched at that moment, and dropped when one is.  A              *)
(* pia_function_key() call returns the latch and clears it, so the call    *)
(* after it returns 0.                                                     *)
(***************************************************************************)
C20_FunctionKeyLatch ==
    [][ /\ (MemStep("mem_write", PIA0_PB) /\ ret'.inp.scan_code \in FunctionCodes) =>
              /\ pia'.keyboard_rows = pia.keyboard_rows
              /\ pia'.function_key =
                    IF pia.function_key = 0
                    THEN ret'.inp.scan_code - SCAN_CODE_F1
                    ELSE pia.function_key
        /\ FunctionKeyStep =>
              /\ ret'.value = pia.function_key
              /\ pia'.function_key = 0
        /\ (FunctionKeyStep /\ ret.fn = "pia_function_key") => ret'.value = 0
      ]_vars

\* F3 was pressed on a PB write and the pia_function_key() call after it
\* returned 3 and emptied the latch; F1 is still waiting in the controller.
C20_Witness ==
    /\ calls = 2 /\ ret.fn = "pia_function_key" /\ ret.value = 3
    /\ pia.function_key = 0 /\ pia.keyboard_rows = AllUp
    /\ host.scan_codes = << 59 >>

(***************************************************************************)
(* The cassette bit stream as the CPU is to see it                         *)
(***************************************************************************)

\* The reads one bit takes, and the level of read n (from 0) of its cell:
\* low for the first half, high for the second.
CellLen(bit) == IF bit = 1 THEN 4 ELSE 20
CellLevel(bit, n) == IF n < CellLen(bit) \div 2 THEN 0 ELSE 1

\* The reads the byte b takes: its eight bits and the one read of the ninth
\* shift.
RECURSIVE BitsLen(_, _)
BitsLen(b, i) == IF i = 8 THEN 0 ELSE CellLen(Bit(b, i)) + BitsLen(b, i + 1)
FrameLen(b) == BitsLen(b, 0) + 1

\* The level of read n (from 0) of the byte b, bit i being the first bit
\* not yet passed; the read after the eighth bit is low.
RECURSIVE FrameLevel(_, _, _)
FrameLevel(b, i, n) ==
    IF i = 8 THEN 0
    ELSE IF n < CellLen(Bit(b, i)) THEN CellLevel(Bit(b, i), n)
    ELSE FrameLevel(b, i + 1, n - CellLen(Bit(b, i)))

\* The bytes of the file that is open, and the number of bytes the
\* generator began before the file was opened.
TapeImage ==
    IF dev.file.file_is_open = 1 THEN CasImage(dev.file.file_start_cluster)
    ELSE << >>
TapeLead == IF host.lead > 0 THEN 1 ELSE 0

\* Byte j (from 0) of the stream: the file's bytes, with 0x55 before the
\* file was opened and after its end.
TapeByte(j) ==
    IF j >= TapeLead /\ j - TapeLead < Len(TapeImage)
    THEN TapeImage[j - TapeLead + 1] ELSE 85

\* The byte index (from 0) read n (from 0) belongs to, and the level of
\* that read, counting from byte j.
RECURSIVE TapeIndex(_, _)
TapeIndex(j, n) ==
    IF n < FrameLen(TapeByte(j)) THEN j
    ELSE TapeIndex(j + 1, n - FrameLen(TapeByte(j)))
RECURSIVE TapeLevel(_, _)
TapeLevel(j, n) ==
    IF n < FrameLen(TapeByte(j)) THEN FrameLevel(TapeByte(j), 0, n)
    ELSE TapeLevel(j + 1, n - FrameLen(TapeByte(j)))

\* The file bytes fetched when the byte with index j is the current one.
TapeFetched(j) ==
    IF j < TapeLead THEN 0
    ELSE IF j - TapeLead < Len(TapeImage) THEN j - TapeLead + 1
    ELSE Len(TapeImage)

\* The most recent call was a read of PIA1-PA.
PaRead == ret.fn = "mem_read" /\ ret.address = PIA1_PA

(***************************************************************************)
(* C21: the reads of PIA1-PA show on bit 0 the bytes of the cassette file  *)
(* one after the other, each byte with bit 0 first, a 1 bit as four reads  *)
(* (two low, then two high), a 0 bit as twenty reads (ten low, then ten    *)
(* high); after the eighth bit comes the ninth shift, whose one read is    *)
(* low, and only the read after it fetches the next byte of the file.      *)
(***************************************************************************)
C21_CassetteBitStream ==
    PaRead =>
        /\ Bit(ret.value, 0) = TapeLevel(0, host.pa_reads - 1)
        /\ dev.file.file_is_open = 1 =>
               dev.file.current_position =
                   TapeFetched(TapeIndex(0, host.pa_reads - 1))

\* The read in the high half of the last bit of the second byte of a file.
C21_Witness ==
    /\ PaRead
    /\ dev.file.file_is_open = 1 /\ host.lead = 0
    /\ dev.file.file_start_cluster = 2 /\ dev.file.current_position = 2
    /\ pia.bit_index = 1 /\ Bit(ret.value, 0) = 1

\* The step is a read of PIA1-PA that fetches a byte.
PaFetchStep == MemStep("mem_read", PIA1_PA) /\ pia.bit_index = 0

\* The file is open and its read position is at its end.
Exhausted ==
    dev.file.file_is_open = 1
    /\ dev.file.current_position = dev.file.file_size

\* The byte the generator holds, with the bit it has just shifted out put
\* back.
CurrentByte(p) ==
    2 * p.byte + (IF p.bit_timing_threshold = BIT_THRESHOLD_HI THEN 1 ELSE 0)

(***************************************************************************)
(* C22: a byte fetch with the cassette file at its end yields 0x55 and     *)
(* leaves the file open with its position where it was, so every later     *)
(* fetch does the same; a read of PIA1-PA is never refused and never       *)
(* halts the machine.                                                      *)
(***************************************************************************)
C22_EndOfFile ==
    /\ [][(PaFetchStep /\ Exhausted) =>
              /\ dev'.file = dev.file
              /\ pia'.bit_index = 8
              /\ CurrentByte(pia') = 85
              /\ Bit(ret'.value, 0) = 0]_vars
    /\ [](/\ ~mem_read(Machine, PIA1_PA).m.oos
          /\ ~mem_read(Machine, PIA1_PA).m.pia.halted)

\* The second fetch past the end of the one-byte file has been made.
C22_Witness ==
    /\ PaRead /\ Exhausted
    /\ dev.file.file_start_cluster = 1 /\ host.lead = 0
    /\ host.pa_reads = FrameLen(165) + FrameLen(85) + 1
    /\ CurrentByte(pia) = 85

\* Bits 3..5 of the CRA byte v are the pattern that drives CA2 high, bit 3
\* being the motor bit.
Ca2Asserted(v) == BitAnd(v, PIACR_CAB2_MASK) = PIACR_CAB2_SET

(***************************************************************************)
(* C23: a write to PIA1-CRA fetches the mounted cassette handle and opens  *)
(* the file only when it moves bits 3..5 into the CA2-asserted pattern     *)
(* with the motor bit set; a write with bit 3 clear, or one that leaves    *)
(* the pattern as it was, leaves the handle, the file and its read         *)
(* position as they were.                                                  *)
(***************************************************************************)
C23_MotorOnOpens ==
    [][MemStep("mem_write", PIA1_CRA) =>
          \/ Ca2Asserted(ret'.data) /\ ~Ca2Asserted(pia.pia1_cra)
          \/ pia'.cas_file = pia.cas_file /\ dev'.file = dev.file]_vars

\* This step is a call of vdg_render().
RenderStep == calls' = calls + 1 /\ ret'.fn = "vdg_render"

\* The fields of the PIA1 mode bits p: ^G, GM[2:0] and ^A/INT.
ModeG(p) == Bit(p, 4)
ModeGM(p) == BitAnd(p, 14) \div 2
ModeInt(p) == Bit(p, 1)

\* The pairs the mode table has a row for, and the mode it lists for them.
TableCovers(s, p) ==
    \/ s = 7
    \/ ModeG(p) = 1
    \/ ModeG(p) = 0 /\ s = 0
    \/ ModeG(p) = 0 /\ s \in {2, 4, 6} /\ ModeInt(p) = 0
ListedMode(s, p) ==
    IF s = 7 THEN "DMA"
    ELSE IF ModeG(p) = 1
    THEN << "GRAPHICS_1C", "GRAPHICS_1R", "GRAPHICS_2C", "GRAPHICS_2R",
            "GRAPHICS_3C", "GRAPHICS_3R", "GRAPHICS_6C", "GRAPHICS_6R"
         >>[ModeGM(p) + 1]
    ELSE CASE s = 0 -> IF ModeInt(p) = 1 THEN "ALPHA_EXTERNAL"
                       ELSE "ALPHA_INTERNAL"
           [] s = 2 -> "SEMI_GRAPHICS_8"
           [] s = 4 -> "SEMI_GRAPHICS_12"
           [] s = 6 -> "SEMI_GRAPHICS_24"

(***************************************************************************)
(* C24: for every pair of SAM mode and PIA1 mode bits the mode table       *)
(* covers, the mode the VDG composes at a render is the one the table      *)
(* lists: SAM 7 gives DMA; with ^G = 1 the bits GM[2:0] select             *)
(* GRAPHICS_1C to GRAPHICS_6R; with ^G = 0, SAM 0 gives ALPHA_INTERNAL     *)
(* (ALPHA_EXTERNAL with ^A/INT = 1) and SAM 2, 4 and 6 give                *)
(* SEMI_GRAPHICS_8, 12 and 24.                                             *)
(***************************************************************************)
C24_ModeTable ==
    [][(RenderStep
        /\ TableCovers(dev.vdg.sam_video_mode, dev.vdg.pia_video_mode)) =>
          dev'.vdg.current_mode =
              ListedMode(dev.vdg.sam_video_mode, dev.vdg.pia_video_mode)]_vars

(***************************************************************************)
(* C25: after the writes to 0xFFC1 and then 0xFFC2 from power-on, with     *)
(* the PIA1 mode bits 0, the mode the VDG composes is ALPHA_INTERNAL.      *)
(***************************************************************************)
C25_ModeAfterTwoWrites ==
    [][(/\ RenderStep
        /\ calls = 2 /\ ret.fn = "mem_write" /\ ret.address = 65474
        /\ dev.sam_registers.vdg_mode = 1
        /\ dev.vdg.pia_video_mode = 0) =>
          dev'.vdg.current_mode = "ALPHA_INTERNAL"]_vars

(***************************************************************************)
(* C28: a write of v to PIA1-PB sets the PIA1 mode bits of the VDG to      *)
(* bits 3..7 of v, and a read of PIA1-PB changes nothing in the PIA, the   *)
(* VDG or the memory.                                                      *)
(***************************************************************************)
C28_VideoModeBits ==
    [][/\ MemStep("mem_write", PIA1_PB) =>
              dev'.vdg.pia_video_mode = (ret'.data \div 8) % 32
       /\ MemStep("mem_read", PIA1_PB) =>
              /\ pia' = pia /\ dev' = dev
              /\ data_byte' = data_byte /\ memory_attr' = memory_attr]_vars

\* PIA1-PB was read after the mode bits were set for GRAPHICS_2R with the
\* first colour set.
C28_Witness ==
    /\ ret.fn = "mem_read" /\ ret.address = PIA1_PB /\ ret.value = 176
    /\ dev.vdg.pia_video_mode = 22

\* This step writes the SAM address with index r of the control register.
SamWriteStep(r) == MemStep("mem_write", 65472 + r)

\* The value new is old with bit k made b and every other bit as it was.
OnlyBit(old, new, k, b) ==
    /\ Bit(new, k) = b
    /\ \A j \in 0..7 : j # k => Bit(new, j) = Bit(old, j)

\* The fields of the control register other than those named in keep are
\* the same after the step.
SamKeeps(fields) ==
    \A f \in fields : dev'.sam_registers[f] = dev.sam_registers[f]
SamFields ==
    {"vdg_mode", "vdg_display_offset", "page", "mpu_rate", "memory_size",
     "memory_map_type"}

(***************************************************************************)
(* C26: a write of any value to 0xFFC0 + 2k + b (k = 0..2) makes bit k of  *)
(* vdg_mode equal to b, a write to 0xFFC6 + 2j + b (j = 0..6) makes bit j  *)
(* of the display offset equal to b, and every other bit of the SAM        *)
(* register stays as it was; so each bit is the b of the last write to     *)
(* its pair, and the writes to 0xFFC1 and then 0xFFC2 from power-on leave  *)
(* vdg_mode = 0b001.                                                       *)
(***************************************************************************)
C26_SamBitPairs ==
    /\ [][\A r \in 0..19 : SamWriteStep(r) =>
              IF r < 6
              THEN /\ OnlyBit(dev.sam_registers.vdg_mode,
                              dev'.sam_registers.vdg_mode, r \div 2, r % 2)
                   /\ SamKeeps(SamFields \ {"vdg_mode"})
              ELSE /\ OnlyBit(dev.sam_registers.vdg_display_offset,
                              dev'.sam_registers.vdg_display_offset,
                              (r - 6) \div 2, r % 2)
                   /\ SamKeeps(SamFields \ {"vdg_display_offset"})]_vars
    /\ []((calls = 2 /\ ret.fn = "mem_write" /\ ret.address = 65474
           /\ Bit(dev.sam_registers.vdg_mode, 0) = 1) =>
             dev.sam_registers.vdg_mode = 1)

\* 0xFFC1 and then 0xFFC2 were written, the second with the byte 0xFF.
C26_Witness ==
    /\ calls = 2 /\ ret.fn = "mem_write" /\ ret.address = 65474
    /\ ret.data = 255
    /\ dev.sam_registers.vdg_mode = 1
    /\ dev.sam_registers.vdg_display_offset = 2

\* The field and the bit of the SAM register that the address with index
\* r (0x14..0x1f) stands for.
SamUpperField(r) ==
    CASE r \in 20..21 -> [field |-> "page", bit |-> 0]
      [] r \in 22..23 -> [field |-> "mpu_rate", bit |-> 0]
      [] r \in 24..25 -> [field |-> "mpu_rate", bit |-> 1]
      [] r \in 26..27 -> [field |-> "memory_size", bit |-> 0]
      [] r \in 28..29 -> [field |-> "memory_size", bit |-> 1]
      [] r \in 30..31 -> [field |-> "memory_map_type", bit |-> 0]

(***************************************************************************)
(* C27: a write to 0xFFD4..0xFFDF is stored: an odd address sets and an    *)
(* even address clears the bit it stands for in page, mpu_rate,            *)
(* memory_size or memory_map_type, while vdg_mode, the display offset      *)
(* and the mode inputs of the VDG stay as they were.                       *)
(***************************************************************************)
C27_UpperBitsStored ==
    [][\A r \in 20..31 : SamWriteStep(r) =>
          /\ Bit(dev'.sam_registers[SamUpperField(r).field],
                 SamUpperField(r).bit) = r % 2
          /\ SamKeeps({"vdg_mode", "vdg_display_offset"})
          /\ dev'.vdg = dev.vdg]_vars

\* The step executes the MUL at PC.
MulStep ==
    Executes /\ DataAt(data_byte, cpu.pc) = 61
    /\ calls' = calls /\ op_code' = 61 /\ cpu'.pc = W16(cpu.pc + 1)

(***************************************************************************)
(* C30: MUL stores the unsigned product A * B in D (A the high byte, B     *)
(* the low byte), sets Z exactly when the 16-bit product is zero, and      *)
(* sets C to bit 7 of the product.                                         *)
(***************************************************************************)
C30_Mul ==
    [][MulStep =>
          /\ cpu'.a * 256 + cpu'.b = cpu.a * cpu.b
          /\ cc'.z = (IF cpu.a * cpu.b = 0 THEN 1 ELSE 0)
          /\ cc'.c = Bit(cpu.a * cpu.b, 7)]_vars

\* The step is the main loop's answer to the reset button, and the call of
\* cpu_run() that finds the reset latch set.
ButtonStep == calls' = calls + 1 /\ ret'.fn = "get_reset_state"
ResetRun == cpu.reset_asserted = 1 /\ calls' = calls

\* The memory cells whose byte the step changes.
CellsChanged ==
    {a \in (DOMAIN data_byte) \cup (DOMAIN data_byte') :
        DataAt(data_byte, a) # DataAt(data_byte', a)}

\* The devices are after the step as they were before it.
DevicesKept ==
    pia' = pia /\ dev' = dev /\ memory_attr' = memory_attr /\ host' = host

\* The cell a long press writes, and nothing for any other step.
ColdStartCell ==
    IF ButtonStep /\ ret'.value = 2 THEN {113} ELSE {}

(***************************************************************************)
(* C29 as stated: a reset changes CPU state only.  The SAM registers, the  *)
(* PIA registers and IRQ status, the keyboard rows, the function-key       *)
(* latch, the cassette generator and every memory cell are after the       *)
(* reset step as before it, except that a long press writes 0 to the RAM   *)
(* byte 0x0071.                                                            *)
(***************************************************************************)
C29_ResetKeepsDevicesAsStated ==
    [][(ButtonStep \/ ResetRun) =>
          /\ DevicesKept
          /\ CellsChanged \subseteq ColdStartCell
          /\ \A a \in ColdStartCell : DataAt(data_byte', a) = 0]_vars

(***************************************************************************)
(* C29: a reset changes CPU state only.  The SAM registers, the PIA        *)
(* registers and IRQ status, the keyboard rows, the function-key latch,    *)
(* the cassette generator and every RAM and ROM cell are after the reset   *)
(* step as before it, except that a long press writes 0 to the RAM byte    *)
(* 0x0071; the cpu_run() that takes the reset leaves in the two cells of   *)
(* the reset vector, 0xFFFE and 0xFFFF, the bytes it read through the      *)
(* redirect from 0xBFFE and 0xBFFF.                                        *)
(***************************************************************************)
C29_ResetKeepsDevices ==
    [][(ButtonStep \/ ResetRun) =>
          /\ DevicesKept
          /\ CellsChanged \subseteq
                 ColdStartCell
                 \cup (IF ResetRun THEN {VEC_RESET, VEC_RESET + 1} ELSE {})
          /\ \A a \in ColdStartCell : DataAt(data_byte', a) = 0
          /\ ResetRun =>
                 \A a \in {VEC_RESET, VEC_RESET + 1} :
                    DataAt(data_byte', a) = DataAt(data_byte, a - 16384)]_vars

\* The reset of a long press was taken with field sync enabled, a key
\* down and the SAM mode changed.
C29_Witness ==
    /\ ret.fn = "get_reset_state" /\ ret.value = 2
    /\ cpu.cpu_state = CPU_RESET /\ cpu.pc = Layout.run
    /\ pia.pia0_cb1_int_enabled = 1
    /\ dev.sam_registers.vdg_mode = 1
    /\ DataAt(data_byte, VEC_RESET + 1) = GET_REG_LOW(Layout.run)

\* The step executes the DAA at PC.
DaaStep ==
    Executes /\ DataAt(data_byte, cpu.pc) = 25
    /\ calls' = calls /\ op_code' = 25 /\ cpu'.pc = W16(cpu.pc + 1)

\* The corrected result: 0x06 added when the low nibble is above 9 or H is
\* set, and 0x60 added once when the high nibble is above 8 with the low
\* nibble above 9, or the high nibble is above 9, or C is set.
DaaCorrected(a, h, c) ==
    a + (IF a % 16 > 9 \/ h = 1 THEN 6 ELSE 0)
      + (IF (a \div 16 > 8 /\ a % 16 > 9) \/ a \div 16 > 9 \/ c = 1
         THEN 96 ELSE 0)

(***************************************************************************)
(* C31: DAA adds 0x06 to A if the low nibble is above 9 or H is set, and   *)
(* adds 0x60 once if the high nibble is above 8 with the low nibble above  *)
(* 9, or the high nibble is above 9, or C is set; A is the low byte of the *)
(* result, C its carry out, V is cleared; A = 0x9B with H = C = 0 gives    *)
(* A = 0x01, C = 1, N = 0, Z = 0.                                          *)
(***************************************************************************)
C31_Daa ==
    [][DaaStep =>
          /\ cpu'.a = DaaCorrected(cpu.a, cc.h, cc.c) % 256
          /\ cc'.c = DaaCorrected(cpu.a, cc.h, cc.c) \div 256
          /\ cc'.v = 0
          /\ (cpu.a = 155 /\ cc.h = 0 /\ cc.c = 0) =>
                 cpu'.a = 1 /\ cc'.c = 1 /\ cc'.n = 0 /\ cc'.z = 0]_vars

\* The IRQ handler runs: the CPU is past the NOP the handler starts with,
\* the frame of the interrupted program on top of the stack.
InIrqHandler ==
    /\ cpu.pc = Layout.irq + 1 /\ op_code = 18 /\ cc.i = 1
    /\ cpu.s = StackTop - 12

\* This step pushed nothing, unless it executed a CWAI.
NothingStacked == cpu'.s >= cpu.s \/ op_code' = 60

(***************************************************************************)
(* C32: IRQ entry sets I and leaves F as it was, NMI and FIRQ entry set    *)
(* both F and I (the flags as the handler's first NOP finds them).  A      *)
(* FIRQ asserted while the IRQ handler runs with F = 0 is serviced by the  *)
(* next step, its three-byte frame below the IRQ's frame on the same       *)
(* stack.  As long as F and I are both set, a step services neither the    *)
(* FIRQ nor the IRQ, and only an instruction the CPU executes changes the  *)
(* flags.                                                                  *)
(***************************************************************************)
C32_NestedInterrupts ==
    [][ /\ (cpu_run /\ Sampling /\ InRam(W16(cpu.s - 12), 12)) =>
              /\ (IrqDue /\ op_code' = 18) => cc'.i = 1 /\ cc'.f = cc.f
              /\ ((NmiDue \/ FirqDue) /\ op_code' = 18) =>
                    cc'.f = 1 /\ cc'.i = 1
              /\ (InIrqHandler /\ cc.f = 0 /\ cpu.firq_asserted = 1
                  /\ ~NmiDue) =>
                    TookFirq /\ (op_code' = 18 => cpu'.s = StackTop - 15)
              /\ (cc.f = 1 /\ cc.i = 1 /\ ~NmiDue) =>
                    TookNone /\ NothingStacked
        /\ cc' # cc => cpu_run
      ]_vars

\* One byte into the FIRQ handler, entered from inside the IRQ handler:
\* the FIRQ's frame, with I set and F clear in the stacked flags and the
\* return address in the IRQ handler, lies below the IRQ's frame.
C32_Witness ==
    /\ cpu.pc = Layout.firq + 1 /\ op_code = 18
    /\ cpu.s = StackTop - 15 /\ cc.f = 1 /\ cc.i = 1
    /\ Bit(DataAt(data_byte, cpu.s), 4) = 1
    /\ Bit(DataAt(data_byte, cpu.s), 6) = 0
    /\ DataAt(data_byte, cpu.s + 1) * 256 + DataAt(data_byte, cpu.s + 2)
          = Layout.irq + 1
    /\ cpu.irq_asserted = 1

(***************************************************************************)
(* C33: between CPU steps, after any sequence of field-sync ticks,         *)
(* PIA0-PB accesses and PIA0-CRB writes, the IRQ line PIA0 drives into     *)
(* the CPU is asserted exactly when CRB bit 7, the IRQ status flag, is     *)
(* set.                                                                    *)
(***************************************************************************)
C33_IrqLineIsCrbBit7 == (cpu.irq_asserted = 1) <=> (IrqFlag(pia) = 1)

\* The scan-table entry a PIA0-PB write with scan code c indexes, or -1
\* when the write consults no entry (no key event, or a function key's
\* make code).
ScanIndex(c) ==
    IF c = 0 \/ (c >= 59 /\ c <= 68) THEN -1 ELSE BitAnd(c, 127)

(***************************************************************************)
(* C34: no keyboard event stops the emulation.  Whatever byte              *)
(* keyboard_read() returns to a PIA0-PB write, the write handler returns   *)
(* (the program is not held in rpi_halt()) and the scan-table entry it     *)
(* indexes, if any, is one of the entries 0..80.                           *)
(***************************************************************************)
C34_KeyboardNeverHalts ==
    [][ MemStep("mem_write", PIA0_PB) =>
          /\ ~pia'.halted
          /\ ScanIndex(W8(ret'.inp.scan_code)) <= 80
      ]_vars

\* A cassette file is being played (open, with at least one read of
\* PIA1-PA made since) and the loader has mounted another one.
OtherFileMounted ==
    /\ dev.file.file_is_open = 1 /\ host.pa_reads > host.lead
    /\ dev.mounted_cas_file # NoEntry
    /\ dev.mounted_cas_file.cluster_chain_head # dev.file.file_start_cluster

\* The CRA byte v turns the motor on.
MotorOn(v) == BitAnd(v, 48) # 0 /\ BitAnd(v, MOTOR_ON) # 0

WideStep(ops, n) ==
    /\ Executes /\ calls' = calls
    /\ \A k \in 1..Len(ops) : DataAt(data_byte, W16(cpu.pc + k - 1)) = ops[k]
    /\ cpu'.pc = W16(cpu.pc + n)

\* The extended address of that instruction, and the cell after it in the
\* 64K address space.
WideAddress(n) ==
    DataAt(data_byte, W16(cpu.pc + n - 2)) * 256
    + DataAt(data_byte, W16(cpu.pc + n - 1))
WideSecond(n) == W16(WideAddress(n) + 1)

\* The byte a read of the cell a returns before the step.
CellByte(a) == mem_read(Machine, a).v

(***************************************************************************)
(* C36: every address the CPU passes to the memory fabric lies in          *)
(* 0x0000..0xFFFF.  The second byte of a 16-bit operand is read from, and  *)
(* the second byte of a 16-bit store written to, the cell after the first  *)
(* one in the 64K address space: the cell 0x0000 when the first byte is    *)
(* at 0xFFFF.                                                              *)
(***************************************************************************)
C36_AddressesWrap ==
    [][ /\ WideStep(<< 190 >>, 3) =>
              cpu'.x = CellByte(WideAddress(3)) * 256 + CellByte(WideSecond(3))
        /\ WideStep(<< 16, 254 >>, 4) =>
              cpu'.s = CellByte(WideAddress(4)) * 256 + CellByte(WideSecond(4))
        /\ WideStep(<< 16, 255 >>, 4) =>
              DataAt(data_byte', WideSecond(4)) = GET_REG_LOW(cpu.s)
      ]_vars

\* The sixteen modes that have a row in resolution[] and mode_name[].
TabledModes == DrawnModes \cup {"ALPHA_EXTERNAL", "SEMI_GRAPHICS_24", "DMA"}

(***************************************************************************)
(* C37: every pair of SAM and PIA1 mode bits the CPU establishes with its  *)
(* writes composes to one of the sixteen modes that have a row in the      *)
(* resolution and mode-name tables, and the mode vdg_render() indexed      *)
(* those tables with is never UNDEFINED.                                   *)
(***************************************************************************)
C37_ModeAlwaysTabled ==
    /\ vdg_get_mode(dev.vdg) \in TabledModes
    /\ dev.vdg.current_mode \in TabledModes

\* The second bytes the switches of the 0x10 and the 0x11 page execute.
Page10Ops ==
    {131, 147, 163, 179, 140, 156, 172, 188, 206, 222, 238, 254,
     142, 158, 174, 190, 223, 239, 255, 159, 175, 191, 63} \cup (33..47)
Page11Ops == {131, 147, 163, 179, 140, 156, 172, 188, 63}

(***************************************************************************)
(* C38: for every second byte after a 0x10 or 0x11 prefix, legal or not,   *)
(* the op-code search ends on an entry of machine_code[] that lies in the  *)
(* part of the table of that prefix page (entries 256..293 for 0x10,       *)
(* 294..302 for 0x11), and on the entry of the byte when the byte is a     *)
(* legal op-code of the page.                                              *)
(***************************************************************************)
C38_SearchStaysInPage ==
    ret.fn = "search" =>
        /\ ret.prefix = 16 =>
              /\ ret.op_code_index \in OP_CODE10..(OP_CODE11 - 1)
              /\ ret.op_code \in Page10Ops =>
                    OpOf(ret.op_code_index) = ret.op_code
        /\ ret.prefix = 17 =>
              /\ ret.op_code_index \in OP_CODE11..(TableSize - 1)
              /\ ret.op_code \in Page11Ops =>
                    OpOf(ret.op_code_index) = ret.op_code

(***************************************************************************)
(* C39: with the receive ISR taken at any point of                         *)
(* bcm2835_auxuart_rx_byte() and bcm2835_auxuart_rx_data(), whenever no    *)
(* call of the reader is in progress recv_cnt equals the number of bytes   *)
(* stored less the number read and lies in 0..256, and the bytes read are  *)
(* the bytes stored, in their order, each once.                            *)
(***************************************************************************)
C39_ReceiveCount ==
    /\ uart.pc = "idle" =>
          uart.recv_cnt = Len(uart.stored) - Len(uart.got)
    /\ uart.recv_cnt \in 0..SER_IN
    /\ Len(uart.got) <= Len(uart.stored)
    /\ uart.got = SubSeq(uart.stored, 1, Len(uart.got))

====
